---- MODULE Spec2Model ----
(***************************************************************************)
(* Window matching, restore and diff of the dev-environment snapshot      *)
(* server: the matcher of internal/platform/matcher.go and the ManagerV2  *)
(* orchestrator (Restore, validateApps, Diff) with its Repository and     *)
(* PlatformAdapter collaborators.                                          *)
(*                                                                         *)
(* A title is a sequence of one-character strings, so that ToLower,       *)
(* Contains, Fields and the character sets of stringSimilarity are        *)
(* computed as the Go code computes them.                                  *)
(***************************************************************************)
EXTENDS Integers, Sequences, FiniteSets, TLC

VARIABLES
    \* ---- matcher: one calculateScore call
    target,               \* calculateScore's target window
    candidate,            \* calculateScore's candidate window
    score,                \* the value calculateScore returned
    spc,                  \* "input" | "scored"
    \* ---- matcher: one MatchWindows call
    targets,              \* MatchWindows' targets argument
    candidates,           \* MatchWindows' candidates argument
    availableCandidates,  \* the local copy MatchWindows removes from
    results,              \* the map MatchWindows returns (title -> MatchResult)
    ti,                   \* index of the next target of the loop
    pool,                 \* candidates argument of the last FindBestMatch call
    match,                \* what the last FindBestMatch call returned
    mpc,                  \* "input" | "loop" | "done"
    \* ---- repository (persisted store)
    repoSnapshots,        \* snapshot id -> stored snapshot record
    repoWindows,          \* snapshot id -> stored window list
    repoTerminals,        \* snapshot id -> stored terminal list
    repoBrowserTabs,      \* snapshot id -> stored browser tab list
    repoIDEFiles,         \* snapshot id -> stored IDE file list
    \* ---- platform adapter
    live,                 \* the window list platform.GetWindows enumerates
    calls,                \* platform calls issued by the running operation
    \* ---- one ManagerV2.Restore call
    pc,                   \* "idle" | "loop" | "done"
    snapshotID,           \* Restore's snapshotID argument
    opts,                 \* Restore's RestoreOptionsV2
    sWindows,             \* s.Windows, the list loaded from the repository
    idx,                  \* index of the next window of the restore loop
    outcomes,             \* what each RestoreWindow call returned (TRUE = nil error)
    validated,            \* "none" | "ok" | "failed": validateApps' GetWindows
    report,               \* the *RestoreReport (NoReport = nil)
    err,                  \* the error returned ("" = nil)
    ctxDone,              \* the caller's ctx is cancelled or past its deadline
    moved,                \* what WindowsAdapterV2 repositioned: stored window, live handle
    \* ---- one ManagerV2.Diff call
    dpc,                  \* "idle" | "done"
    diffIDs,              \* <<id1, id2>>: Diff's arguments
    diffLoads,            \* <<ok1, ok2>>: did repo.GetWindows(id1), (id2) succeed
    diff,                 \* the *DiffResult (NoDiff = nil)
    derr,                 \* the error Diff returned ("" = nil)
    \* ---- the manager's sanitizer and one ManagerV2.Capture call
    sanitizer,            \* m.sanitizer's SanitizationOptions
    cpc,                  \* "idle" | the next statement of Capture | "done"
    copts,                \* Capture's CaptureOptionsV2
    capSnap,              \* s, the snapshot Capture assembles
    clog,                 \* collaborator calls issued by the running Capture
    cresult,              \* the *Snapshot Capture returned (NoSnapshot = nil)
    cerr                  \* the error Capture returned ("" = nil)

matchVars == <<targets, candidates, availableCandidates, results, ti, pool, match, mpc>>
scoreVars == <<target, candidate, score, spc>>
repoVars == <<repoSnapshots, repoWindows, repoTerminals, repoBrowserTabs, repoIDEFiles>>
restoreVars ==
    <<pc, snapshotID, opts, sWindows, idx, outcomes, validated, report, err, calls, ctxDone,
      moved>>
diffVars == <<dpc, diffIDs, diffLoads, diff, derr>>
captureVars == <<sanitizer, cpc, copts, capSnap, clog, cresult, cerr>>
vars == <<scoreVars, matchVars, repoVars, live, restoreVars, diffVars, captureVars>>

-----------------------------------------------------------------------------
(* Titles used as inputs.                                                  *)

\* ""
TEmpty ==
    << >>

\* "ab"
Tab ==
    <<"a", "b">>

\* "AB"
TAB ==
    <<"A", "B">>

\* "abc"
Tabc ==
    <<"a", "b", "c">>

\* "acb"
Tacb ==
    <<"a", "c", "b">>

\* "abcx"
Tabcx ==
    <<"a", "b", "c", "x">>

\* "a x"
Tax ==
    <<"a", " ", "x">>

\* "A X"
TAX ==
    <<"A", " ", "X">>

\* "a yz"
Tayz ==
    <<"a", " ", "y", "z">>

\* "a zy"
Tazy ==
    <<"a", " ", "z", "y">>

\* "a a a a a q"
Taaaaaq ==
    <<"a", " ", "a", " ", "a", " ", "a", " ", "a", " ", "q">>

\* "main.go - myproj - Editor"
TMain ==
    <<"m", "a", "i", "n", ".", "g", "o", " ", "-", " ", "m", "y", "p", "r", "o", "j", " ", "-", " ", "E", "d", "i", "t", "o", "r">>

\* "other.go - myproj - Editor"
TOther ==
    <<"o", "t", "h", "e", "r", ".", "g", "o", " ", "-", " ", "m", "y", "p", "r", "o", "j", " ", "-", " ", "E", "d", "i", "t", "o", "r">>

\* "unrelated"
TUnrelated ==
    <<"u", "n", "r", "e", "l", "a", "t", "e", "d">>

\* "A"
TA ==
    <<"A">>

\* "B"
TB ==
    <<"B">>

\* "C"
TC ==
    <<"C">>

-----------------------------------------------------------------------------
(* Go string helpers.                                                      *)

Range(s) == {s[i] : i \in DOMAIN s}

UpperChars == <<"A", "B", "C", "D", "E", "F", "G", "H", "I", "J", "K", "L", "M",
                "N", "O", "P", "Q", "R", "S", "T", "U", "V", "W", "X", "Y", "Z">>
LowerChars == <<"a", "b", "c", "d", "e", "f", "g", "h", "i", "j", "k", "l", "m",
                "n", "o", "p", "q", "r", "s", "t", "u", "v", "w", "x", "y", "z">>

ToLowerChar(c) ==
    IF \E i \in DOMAIN UpperChars : UpperChars[i] = c
    THEN LowerChars[CHOOSE i \in DOMAIN UpperChars : UpperChars[i] = c]
    ELSE c

\* strings.ToLower
ToLower(s) == [i \in DOMAIN s |-> ToLowerChar(s[i])]

\* strings.Contains: the empty string is contained in every string
Contains(s, substr) ==
    \E i \in 0..(Len(s) - Len(substr)) : SubSeq(s, i + 1, i + Len(substr)) = substr

IsSpace(c) == c = " "

\* strings.Fields: the maximal runs of non-space characters, in order
RECURSIVE FieldsFrom(_, _, _, _)
FieldsFrom(s, i, cur, acc) ==
    IF i > Len(s)
    THEN IF cur = << >> THEN acc ELSE Append(acc, cur)
    ELSE IF IsSpace(s[i])
         THEN FieldsFrom(s, i + 1, << >>, IF cur = << >> THEN acc ELSE Append(acc, cur))
         ELSE FieldsFrom(s, i + 1, Append(cur, s[i]), acc)

Fields(s) == FieldsFrom(s, 1, << >>, << >>)

-----------------------------------------------------------------------------
(* core.Window: the fields the matcher, validateApps and Diff read.        *)

Window(t, a, w, h) == [WindowTitle |-> t, AppName |-> a, Width |-> w, Height |-> h]

NoWindow == Window(TEmpty, "", 0, 0)

-----------------------------------------------------------------------------
(* internal/platform/matcher.go                                            *)

\* DefaultMatcher()
ExactTitleScore == 100
PartialTitleScore == 50
SameAppScore == 50
SameSizeScore == 10
MinimumScore == 60

\* nil *MatchResult
NoMatch == [nil |-> TRUE]

\* stringSimilarity as the fraction <<numerator, denominator>> of the float64
\* it returns: 1.0 for equal strings, 0.0 for an empty union, else
\* |set1 \cap set2| / |set1 \cup set2| over the character sets.
stringSimilarity(s1, s2) ==
    IF s1 = s2 THEN <<1, 1>>
    ELSE LET set1 == Range(s1)
             set2 == Range(s2)
             intersection == Cardinality(set1 \cap set2)
             union == Cardinality(set1) + Cardinality(set2) - intersection
         IN  IF union = 0 THEN <<0, 1>> ELSE <<intersection, union>>

\* countCommonTokens: every element of tokens2 whose lower-case form is in the
\* set of lower-cased tokens1 counts, repeated elements of tokens2 included.
countCommonTokens(tokens1, tokens2) ==
    LET set == {ToLower(tokens1[i]) : i \in DOMAIN tokens1}
    IN  Cardinality({i \in DOMAIN tokens2 : ToLower(tokens2[i]) \in set})

\* scoreTitleMatch with the token rule tried before the Jaccard rule
scoreTitleMatch_TokensBeforeJaccard(t, c) ==
    IF t = c THEN ExactTitleScore
    ELSE LET targetLower == ToLower(t)
             candidateLower == ToLower(c)
             targetTokens == Fields(t)
             commonTokens == countCommonTokens(targetTokens, Fields(c))
             similarity == stringSimilarity(targetLower, candidateLower)
         IN  IF targetLower = candidateLower THEN ExactTitleScore
             ELSE IF Contains(candidateLower, targetLower) THEN PartialTitleScore
             ELSE IF Contains(targetLower, candidateLower) THEN PartialTitleScore
             ELSE IF commonTokens > 0
                  THEN (commonTokens * PartialTitleScore) \div Len(targetTokens)
             ELSE IF 10 * similarity[1] > 7 * similarity[2]
                  THEN (PartialTitleScore * similarity[1]) \div similarity[2]
             ELSE 0

\* scoreTitleMatch(target, candidate). similarity > 0.7 is num/den > 7/10 and
\* int(float64(PartialTitleScore) * similarity) is the floor of the product.
scoreTitleMatch(t, c) ==
    IF t = c THEN ExactTitleScore
    ELSE LET targetLower == ToLower(t)
             candidateLower == ToLower(c)
         IN  IF targetLower = candidateLower THEN ExactTitleScore
             ELSE IF Contains(candidateLower, targetLower) THEN PartialTitleScore
             ELSE IF Contains(targetLower, candidateLower) THEN PartialTitleScore
             ELSE LET similarity == stringSimilarity(targetLower, candidateLower)
                  IN  IF 10 * similarity[1] > 7 * similarity[2]
                      THEN (PartialTitleScore * similarity[1]) \div similarity[2]
                      ELSE LET targetTokens == Fields(t)
                               candidateTokens == Fields(c)
                               commonTokens == countCommonTokens(targetTokens, candidateTokens)
                           IN  IF commonTokens > 0
                               THEN (commonTokens * PartialTitleScore) \div Len(targetTokens)
                               ELSE 0

Abs(n) == IF n < 0 THEN -n ELSE n

\* math.Abs(float64(d)) / float64(base) <= 0.1 (tolerance). With base = 0 the
\* quotient is NaN (d = 0) or +Inf (d # 0) and the comparison is false; with
\* base < 0 the quotient is <= 0.
WithinTolerance(d, base) ==
    IF base = 0 THEN FALSE
    ELSE IF base < 0 THEN TRUE
    ELSE 10 * Abs(d) <= base

\* isSimilarSize(w1, w2): both differences relative to w1's own size
isSimilarSize(w1, w2) ==
    /\ WithinTolerance(w1.Width - w2.Width, w1.Width)
    /\ WithinTolerance(w1.Height - w2.Height, w1.Height)

\* calculateScore(target, candidate)
calculateScore(t, c) ==
    scoreTitleMatch(t.WindowTitle, c.WindowTitle)
    + (IF t.AppName = c.AppName THEN SameAppScore ELSE 0)
    + (IF isSimilarSize(t, c) THEN SameSizeScore ELSE 0)

\* KeepBest without the acceptance threshold
KeepBest_NoThreshold(t, bestMatch, cand) ==
    LET s == calculateScore(t, cand)
    IN  IF bestMatch = NoMatch \/ s > bestMatch.Score
        THEN [Window |-> cand, Score |-> s]
        ELSE bestMatch

\* KeepBest replacing the best match on an equal score
KeepBest_LastWins(t, bestMatch, cand) ==
    LET s == calculateScore(t, cand)
    IN  IF s >= MinimumScore /\ (bestMatch = NoMatch \/ s >= bestMatch.Score)
        THEN [Window |-> cand, Score |-> s]
        ELSE bestMatch

\* One iteration of FindBestMatch's loop: bestMatch after looking at cand
KeepBest(t, bestMatch, cand) ==
    LET s == calculateScore(t, cand)
    IN  IF s >= MinimumScore /\ (bestMatch = NoMatch \/ s > bestMatch.Score)
        THEN [Window |-> cand, Score |-> s]
        ELSE bestMatch

RECURSIVE FindBestFrom(_, _, _, _)
FindBestFrom(t, cands, i, bestMatch) ==
    IF i > Len(cands) THEN bestMatch
    ELSE FindBestFrom(t, cands, i + 1, KeepBest(t, bestMatch, cands[i]))

\* FindBestMatch(target, candidates)
FindBestMatch(t, cands) == FindBestFrom(t, cands, 1, NoMatch)

\* KeepsWindow that removes nothing
KeepsWindow_All(w, toRemove) == TRUE

\* removeWindow(windows, toRemove): keeps the windows that differ from toRemove
\* in title or in application
KeepsWindow(w, toRemove) ==
    w.WindowTitle # toRemove.WindowTitle \/ w.AppName # toRemove.AppName

RECURSIVE removeWindow(_, _)
removeWindow(windows, toRemove) ==
    IF windows = << >> THEN << >>
    ELSE LET rest == removeWindow(Tail(windows), toRemove)
         IN  IF KeepsWindow(Head(windows), toRemove)
             THEN <<Head(windows)>> \o rest
             ELSE rest

\* One iteration of MatchWindows' loop over targets: the result map and the
\* available candidates after target t
MatchOne(t, res, avail) ==
    LET m == FindBestMatch(t, avail)
    IN  IF m # NoMatch
        THEN [match |-> m,
              results |-> [k \in DOMAIN res \cup {t.WindowTitle} |->
                              IF k = t.WindowTitle THEN m ELSE res[k]],
              availableCandidates |-> removeWindow(avail, m.Window)]
        ELSE [match |-> m, results |-> res, availableCandidates |-> avail]

-----------------------------------------------------------------------------
(* WindowsAdapterV2.RestoreWindow (internal/platform/windows_v2.go). A     *)
(* window handle is the position of the window in the enumeration.         *)

\* findWindowHandle(title): the first enumerated window with that title, 0
\* if there is none
findWindowHandle(windows, title) ==
    IF \E h \in DOMAIN windows : windows[h].WindowTitle = title
    THEN CHOOSE h \in DOMAIN windows :
            /\ windows[h].WindowTitle = title
            /\ \A g \in 1..(h - 1) : windows[g].WindowTitle # title
    ELSE 0

\* setWindowPosition(hwnd, window): the live window takes the stored size
setWindowPosition(windows, hwnd, window) ==
    [windows EXCEPT ![hwnd].Width = window.Width, ![hwnd].Height = window.Height]

\* RestoreWindow(ctx, window): windows is what GetWindows enumerates, getOk
\* and setOk whether GetWindows and SetWindowPos succeed. The result holds
\* the returned error (ok = nil), the handle repositioned and the live
\* windows afterwards.
RestoreWindow(window, windows, getOk, setOk) ==
    LET m == IF getOk THEN FindBestMatch(window, windows) ELSE NoMatch
        foundHwnd == IF m = NoMatch THEN 0
                     ELSE findWindowHandle(windows, m.Window.WindowTitle)
    IN  IF foundHwnd = 0 \/ ~setOk
        THEN [ok |-> FALSE, hwnd |-> 0, live |-> windows]
        ELSE [ok |-> TRUE, hwnd |-> foundHwnd,
              live |-> setWindowPosition(windows, foundHwnd, window)]

-----------------------------------------------------------------------------
(* ManagerV2.Restore and validateApps (manager_v2 part of                 *)
(* internal/core/interfaces.go).                                           *)

\* nil *RestoreReport
NoReport == [nil |-> TRUE]

\* RestoreReport.Message: the format text and the two numbers it prints
Message(text, n, m) == [text |-> text, n |-> n, m |-> m]

\* &RestoreReport{SnapshotID: snapshotID, TotalWindows: len(s.Windows)}
NewReport(id, windows) ==
    [SnapshotID |-> id,
     TotalWindows |-> Len(windows),
     RestoredWindows |-> 0,
     FailedWindows |-> << >>,
     MissingApps |-> << >>,
     Errors |-> << >>,
     Success |-> FALSE,
     DryRun |-> FALSE,
     Error |-> "",
     Message |-> Message("", 0, 0)]

\* the second loop of validateApps: the applications of windows[i..] that are
\* neither checked already nor available, in order of first occurrence
RECURSIVE MissingFrom(_, _, _, _)
MissingFrom(windows, i, availableApps, checked) ==
    IF i > Len(windows) THEN << >>
    ELSE LET app == windows[i].AppName
         IN  IF app \in checked
             THEN MissingFrom(windows, i + 1, availableApps, checked)
             ELSE IF app \notin availableApps
                  THEN <<app>> \o MissingFrom(windows, i + 1, availableApps, checked \cup {app})
                  ELSE MissingFrom(windows, i + 1, availableApps, checked \cup {app})

\* validateApps that reports every application of the stored windows
validateApps_IgnoresCurrent(current, windows) == MissingFrom(windows, 1, {}, {})

\* validateApps(windows), current being what platform.GetWindows returned:
\* an error of GetWindows gives nil, as if nothing were missing
validateApps(current, windows) ==
    IF ~current.ok THEN << >>
    ELSE MissingFrom(windows, 1, {current.windows[i].AppName : i \in DOMAIN current.windows}, {})

\* GateStops with the sense of SkipMissingApps inverted
GateStops_Inverted(missing, o) == Len(missing) > 0 /\ o.SkipMissingApps

\* len(missing) > 0 && !opts.SkipMissingApps
GateStops(missing, o) == Len(missing) > 0 /\ ~o.SkipMissingApps

\* the report returned by the validation gate
GateReport(rep) ==
    [rep EXCEPT !.Success = FALSE, !.Error = "missing applications"]

\* DryRunReport that leaves the DryRun flag unset
DryRunReport_NoFlag(rep) ==
    [rep EXCEPT !.Success = TRUE,
                !.Message = Message("Dry run completed - no changes made", 0, 0)]

\* the report returned in dry run mode
DryRunReport(rep) ==
    [rep EXCEPT !.Success = TRUE,
                !.DryRun = TRUE,
                !.Message = Message("Dry run completed - no changes made", 0, 0)]

\* AfterRestoreWindow that counts a failed window as restored as well
AfterRestoreWindow_CountsFailures(rep, w, ok) ==
    IF ok
    THEN [rep EXCEPT !.RestoredWindows = @ + 1]
    ELSE [rep EXCEPT !.FailedWindows = Append(@, w.WindowTitle),
                     !.Errors = Append(@, <<w.WindowTitle, "error">>),
                     !.RestoredWindows = @ + 1]

\* the body of the restore loop, ok being "RestoreWindow returned nil"
AfterRestoreWindow(rep, w, ok) ==
    IF ok
    THEN [rep EXCEPT !.RestoredWindows = @ + 1]
    ELSE [rep EXCEPT !.FailedWindows = Append(@, w.WindowTitle),
                     !.Errors = Append(@, <<w.WindowTitle, "error">>)]

\* NextIndex that leaves the loop at the first failing window
NextIndex_BreakOnError(i, ok, n) == IF ok THEN i + 1 ELSE n + 1

\* "continue" and the end of the loop body alike go on with the next window
NextIndex(i, ok, n) == i + 1

\* FinalReport that calls the restore a success only when nothing failed
FinalReport_AllOrNothing(rep) ==
    [rep EXCEPT !.Success = rep.RestoredWindows = rep.TotalWindows,
                !.Message = IF rep.RestoredWindows = rep.TotalWindows
                            THEN Message("All windows restored successfully", 0, 0)
                            ELSE Message("Restored %d/%d windows",
                                         rep.RestoredWindows, rep.TotalWindows)]

\* the report after the loop
FinalReport(rep) ==
    [rep EXCEPT !.Success = rep.RestoredWindows > 0,
                !.Message = IF rep.RestoredWindows = rep.TotalWindows
                            THEN Message("All windows restored successfully", 0, 0)
                            ELSE Message("Restored %d/%d windows",
                                         rep.RestoredWindows, rep.TotalWindows)]

PlatformCall(name, w) == [call |-> name, window |-> w]

\* RestoreError reached after the current windows were enumerated
RestoreError_AfterEnumerating(e) ==
    [pc |-> "done", sWindows |-> << >>, idx |-> 0, validated |-> "ok",
     report |-> NoReport, err |-> e, calls |-> <<PlatformCall("GetWindows", NoWindow)>>]

\* return nil, fmt.Errorf(e): the exits of Restore before the report exists
RestoreError(e) ==
    [pc |-> "done", sWindows |-> << >>, idx |-> 0, validated |-> "none",
     report |-> NoReport, err |-> e, calls |-> << >>]

\* Restore up to the loop. snapOk, winOk: repo.GetSnapshotByID and
\* repo.GetWindows return no error; current: what platform.GetWindows returns
\* if validateApps calls it. The result holds the operation's next state.
RestoreEntry(snapshots, windowsTbl, id, o, snapOk, winOk, current) ==
        IF ~snapOk THEN RestoreError("failed to get snapshot")
        ELSE IF id \notin DOMAIN snapshots THEN RestoreError("snapshot not found")
        ELSE IF ~winOk THEN RestoreError("failed to get windows")
        ELSE
          LET ws == IF id \in DOMAIN windowsTbl THEN windowsTbl[id] ELSE << >>
              rep0 == NewReport(id, ws)
              missing == IF o.ValidateBeforeRestore THEN validateApps(current, ws) ELSE << >>
              rep1 == [rep0 EXCEPT !.MissingApps = missing]
              v == IF ~o.ValidateBeforeRestore THEN "none"
                   ELSE IF current.ok THEN "ok" ELSE "failed"
              cs == IF o.ValidateBeforeRestore
                    THEN <<PlatformCall("GetWindows", NoWindow)>> ELSE << >>
          IN  IF o.ValidateBeforeRestore /\ GateStops(missing, o)
              THEN [pc |-> "done", sWindows |-> ws, idx |-> 0, validated |-> v,
                    report |-> GateReport(rep1),
                    err |-> "cannot restore: missing applications", calls |-> cs]
              ELSE IF o.DryRun
              THEN [pc |-> "done", sWindows |-> ws, idx |-> 0, validated |-> v,
                    report |-> DryRunReport(rep1), err |-> "", calls |-> cs]
              ELSE [pc |-> "loop", sWindows |-> ws, idx |-> 1, validated |-> v,
                    report |-> rep1, err |-> "", calls |-> cs]

-----------------------------------------------------------------------------
(* ManagerV2.Diff (the same code as Manager.Diff of                        *)
(* internal/snapshot/manager.go).                                          *)

\* nil *DiffResult
NoDiff == [nil |-> TRUE]

\* repo.GetWindows(id): the rows of the windows table with that snapshot id
GetWindows(windowsTbl, id) ==
    IF id \in DOMAIN windowsTbl THEN windowsTbl[id] ELSE << >>

\* titles1 / titles2: the keys of the map filled from a window list
TitleSet(ws) == {ws[i].WindowTitle : i \in DOMAIN ws}

\* AddedTitles that ranges over the keys of titles1 instead of titles2
AddedTitles_FromFirst(titles1, titles2) == titles1 \ titles2

\* the titles appended to AddedWindows: the keys of titles2 not in titles1
AddedTitles(titles1, titles2) == titles2 \ titles1

\* the titles appended to RemovedWindows: the keys of titles1 not in titles2
RemovedTitles(titles1, titles2) == titles1 \ titles2

\* CommonCount over the windows of the second list, not over its titles
CommonCount_PerWindow(titles1, w2) ==
    Cardinality({i \in DOMAIN w2 : w2[i].WindowTitle \in titles1})

\* CommonWindows: one increment per key of titles2 that is in titles1
CommonCount(titles1, w2) == Cardinality(TitleSet(w2) \cap titles1)

\* GitChanged that compares the branches only
GitChanged_BranchOnly(s1, s2) == s1.GitBranch # s2.GitBranch

\* s1.GitBranch != s2.GitBranch || s1.GitRepo != s2.GitRepo
GitChanged(s1, s2) == s1.GitBranch # s2.GitBranch \/ s1.GitRepo # s2.GitRepo

\* the orders in which "for t := range map" can visit the keys S
Orderings(S) == {f \in [1..Cardinality(S) -> S] : Range(f) = S}

\* Diff(id1, id2). snapOk1, snapOk2: the GetSnapshotByID calls return no
\* error; winOk1, winOk2: the GetWindows calls return no error (an error is
\* dropped and the list is nil). The result is the set of <<diff, err>> the
\* call can return, one per iteration order of the two maps.
Diff(snapshots, windowsTbl, id1, id2, snapOk1, snapOk2, winOk1, winOk2) ==
    IF ~snapOk1 \/ ~snapOk2 THEN {<<NoDiff, "error">>}
    ELSE IF id1 \notin DOMAIN snapshots \/ id2 \notin DOMAIN snapshots
    THEN {<<NoDiff, "one or both snapshots not found">>}
    ELSE
      LET w1 == IF winOk1 THEN GetWindows(windowsTbl, id1) ELSE << >>
          w2 == IF winOk2 THEN GetWindows(windowsTbl, id2) ELSE << >>
          titles1 == TitleSet(w1)
          titles2 == TitleSet(w2)
      IN  { << [SourceID |-> id1,
                TargetID |-> id2,
                GitChanged |-> GitChanged(snapshots[id1], snapshots[id2]),
                AddedWindows |-> added,
                RemovedWindows |-> removed,
                CommonWindows |-> CommonCount(titles1, w2)], "" >> :
            added \in Orderings(AddedTitles(titles1, titles2)),
            removed \in Orderings(RemovedTitles(titles1, titles2)) }

-----------------------------------------------------------------------------
(* The sanitizer (internal/sanitize) and ManagerV2.Capture.                *)
(* The sanitizer's regular expressions and URL parsing are tabulated over  *)
(* the texts the capture inputs below are built from.                      *)

\* nil *Snapshot
NoSnapshot == [nil |-> TRUE]

\* nil map[string]string
NoEnv == [k \in {} |-> ""]

\* nil *git.Context
NoGit == [nil |-> TRUE]

\* a window title holding an e-mail address, and what maskSensitiveTitle
\* makes of it
TMail ==
    <<"b", "@", "x", ".", "i", "o">>
TMailMasked ==
    <<"*", "*", "*", "E", "M", "A", "I", "L", "*", "*", "*">>

\* sanitize.DefaultOptions(), FilterEnvVars as the set of its entries
DefaultOptions ==
    [MaskURLTokens |-> TRUE,
     FilterEnvVars |-> {"API_KEY", "APIKEY", "SECRET", "PASSWORD", "PASSWD",
                        "TOKEN", "AUTH", "CREDENTIALS", "AWS_SECRET_ACCESS_KEY",
                        "GITHUB_TOKEN", "SLACK_TOKEN", "OPENAI_API_KEY"},
     RedactWindowTitles |-> FALSE,
     MaskPaths |-> TRUE]

\* maskSensitiveURL: the value of a sensitive query parameter is replaced,
\* and query.Encode escapes the asterisks of the replacement
maskSensitiveURL(rawURL) ==
    CASE rawURL = "https://x.io/?token=abc"
           -> "https://x.io/?token=%2A%2A%2AREDACTED%2A%2A%2A"
      [] OTHER -> rawURL

\* the entries of DefaultOptions().FilterEnvVars that an environment key
\* equals under case folding or contains case-insensitively
SensitiveWordsIn(key) ==
    CASE key = "API_KEY" -> {"API_KEY"}
      [] key = "my_token" -> {"TOKEN"}
      [] OTHER -> {}

\* sanitizeTerminals on one terminal: a nil EnvVars is skipped
sanitizeTerminal(o, t) ==
    [t EXCEPT !.EnvVars =
        [key \in DOMAIN t.EnvVars |->
            IF SensitiveWordsIn(key) \cap o.FilterEnvVars # {}
            THEN "***REDACTED***" ELSE t.EnvVars[key]]]

\* maskSensitiveTitle: e-mail addresses, IP addresses and long hexadecimal
\* tokens of a title are replaced
maskSensitiveTitle(title) ==
    IF title = TMail THEN TMailMasked ELSE title

\* userPattern.ReplaceAllString(path, "${1}***USER***") of sanitizePaths
maskUserPath(path) ==
    CASE path = "/home/bob/bin/code" -> "/home/***USER***/bin/code"
      [] path = "/home/bob/src" -> "/home/***USER***/src"
      [] path = "/home/bob/src/main.go" -> "/home/***USER***/src/main.go"
      [] OTHER -> path

\* sanitizePaths(snap)
sanitizePaths(snap) ==
    [snap EXCEPT
        !.Windows = [i \in DOMAIN @ |-> [@[i] EXCEPT !.AppPath = maskUserPath(@)]],
        !.Terminals = [i \in DOMAIN @ |->
                          [@[i] EXCEPT !.WorkingDirectory = maskUserPath(@)]],
        !.IDEFiles = [i \in DOMAIN @ |-> [@[i] EXCEPT !.FilePath = maskUserPath(@)]],
        !.GitRepo = maskUserPath(@)]

\* Sanitizer.SanitizeSnapshot(snap) of a sanitizer with options o
SanitizeSnapshot(o, snap) ==
    LET s1 == IF o.MaskURLTokens
              THEN [snap EXCEPT !.BrowserTabs =
                       [i \in DOMAIN @ |-> [@[i] EXCEPT !.URL = maskSensitiveURL(@)]]]
              ELSE snap
        s2 == IF o.FilterEnvVars # {}
              THEN [s1 EXCEPT !.Terminals =
                       [i \in DOMAIN @ |-> sanitizeTerminal(o, @[i])]]
              ELSE s1
        s3 == IF o.RedactWindowTitles
              THEN [s2 EXCEPT !.Windows =
                       [i \in DOMAIN @ |->
                           [@[i] EXCEPT !.WindowTitle = maskSensitiveTitle(@)]]]
              ELSE s2
    IN  IF o.MaskPaths THEN sanitizePaths(s3) ELSE s3

\* a captured window, terminal, browser tab, IDE file and git context: the
\* fields the sanitizer and the repository read
CapturedWindow(t, a, p) ==
    [WindowTitle |-> t, AppName |-> a, AppPath |-> p, Width |-> 100, Height |-> 100]
Terminal(dir, env) == [TerminalApp |-> "term", WorkingDirectory |-> dir, EnvVars |-> env]
BrowserTab(url) == [BrowserName |-> "chrome", URL |-> url]
IDEFile(path) == [IDEName |-> "code", FilePath |-> path]
GitContext(path, branch, dirty, hash) ==
    [RepoPath |-> path, Branch |-> branch, IsDirty |-> dirty, HeadHash |-> hash]

\* a []string: nil, or a slice with its items
NilTags == [nil |-> TRUE, items |-> << >>]
TagList(items) == [nil |-> FALSE, items |-> items]

\* s := &core.Snapshot{ID: uuid.New().String(), Name: opts.Name, ...}: the
\* git fields and the component lists start at their zero values
NewSnapshot(id, o) ==
    [ID |-> id, Name |-> o.Name, Description |-> o.Description, Tags |-> o.Tags,
     GitBranch |-> "", GitRepo |-> "", GitDirty |-> FALSE, GitHeadHash |-> "",
     Windows |-> << >>, Terminals |-> << >>, BrowserTabs |-> << >>, IDEFiles |-> << >>]

\* one collaborator call of Capture: its name, whether it returned a nil
\* error, and the data it returned (an enumeration) or was handed (the
\* sanitizer, a repository write)
Call(name, ok, data) == [call |-> name, ok |-> ok, data |-> data]

\* CaptureSteps with the sanitizer run after CreateSnapshot
CaptureSteps_SanitizeAfterCreate ==
    << "GetWindows", "GetTerminals", "DetectContext", "GetBrowserTabs", "GetIDEFiles",
       "CreateSnapshot", "SanitizeSnapshot",
       "SaveWindows", "SaveTerminals", "SaveBrowserTabs", "SaveIDEFiles" >>

\* CaptureSteps with SaveTerminals before SaveWindows
CaptureSteps_TerminalsBeforeWindows ==
    << "GetWindows", "GetTerminals", "DetectContext", "GetBrowserTabs", "GetIDEFiles",
       "SanitizeSnapshot", "CreateSnapshot",
       "SaveTerminals", "SaveWindows", "SaveBrowserTabs", "SaveIDEFiles" >>

\* the collaborator calls of Capture, in statement order
CaptureSteps ==
    << "GetWindows", "GetTerminals", "DetectContext", "GetBrowserTabs", "GetIDEFiles",
       "SanitizeSnapshot", "CreateSnapshot",
       "SaveWindows", "SaveTerminals", "SaveBrowserTabs", "SaveIDEFiles" >>

\* the statement after a step: the next step, or "return s, nil"
AfterStep(step) ==
    LET i == CHOOSE k \in DOMAIN CaptureSteps : CaptureSteps[k] = step
    IN  IF i < Len(CaptureSteps) THEN CaptureSteps[i + 1] ELSE "return"

\* step 1 that goes on with no windows when GetWindows fails
CaptureWindows_IgnoresError(s, res) ==
    [err |-> "", s |-> [s EXCEPT !.Windows = res.data]]

\* step 1: windows, err := m.platform.GetWindows(ctx)
CaptureWindows(s, res) ==
    IF ~res.ok THEN [err |-> "failed to capture windows", s |-> s]
    ELSE [err |-> "", s |-> [s EXCEPT !.Windows = res.data]]

\* step 2 that enumerates terminals whatever the options say
CallsGetTerminals_Always(o) == TRUE

\* if opts.IncludeTerminals
CallsGetTerminals(o) == o.IncludeTerminals

\* step 2: terminals, err := m.platform.GetTerminals(ctx)
CaptureTerminals(s, res) ==
    IF ~res.ok THEN [err |-> "failed to capture terminals", s |-> s]
    ELSE [err |-> "", s |-> [s EXCEPT !.Terminals = res.data]]

\* step 3: if err == nil && gitCtx != nil { ... }
CaptureGitContext(s, res) ==
    IF res.ok /\ res.ctx # NoGit
    THEN [s EXCEPT !.GitBranch = res.ctx.Branch,
                   !.GitRepo = res.ctx.RepoPath,
                   !.GitDirty = res.ctx.IsDirty,
                   !.GitHeadHash = res.ctx.HeadHash]
    ELSE s

\* if opts.IncludeBrowsable
CallsGetBrowserTabs(o) == o.IncludeBrowsable

\* steps 4 and 5: if err == nil && len(list) > 0 { s.X = list }
KeptList(res) == IF res.ok /\ Len(res.data) > 0 THEN res.data ELSE << >>

\* step 6: if opts.Sanitize { m.sanitizer.SanitizeSnapshot(s) }
SanitizedIfRequested(o, san, s) == IF o.Sanitize THEN SanitizeSnapshot(san, s) ELSE s

\* marshalJSON(tags): the JSON text as its tokens, "null" for a nil slice
marshalJSON(tags) ==
    IF tags.nil THEN <<"null">> ELSE <<"[">> \o tags.items \o <<"]">>

\* unmarshalJSON(data, &s.Tags): an empty text and "null" leave the slice nil
unmarshalJSON(data) ==
    IF data = << >> \/ data = <<"null">> THEN NilTags
    ELSE TagList(SubSeq(data, 2, Len(data) - 1))

\* the row CreateSnapshot inserts into the snapshots table
SnapshotRow(s) ==
    [ID |-> s.ID, Name |-> s.Name, Description |-> s.Description,
     GitBranch |-> s.GitBranch, GitRepo |-> s.GitRepo,
     GitDirty |-> s.GitDirty, GitHeadHash |-> s.GitHeadHash,
     Tags |-> marshalJSON(s.Tags)]

\* GetSnapshotByID(id): SELECT id, name, description, created_at, updated_at,
\* git_branch, git_repo, git_dirty, tags; the struct's other fields keep
\* their zero values, and no row gives (nil, nil)
GetSnapshotByID(snapshots, id) ==
    IF id \notin DOMAIN snapshots THEN NoSnapshot
    ELSE LET row == snapshots[id]
         IN  [ID |-> row.ID, Name |-> row.Name, Description |-> row.Description,
              GitBranch |-> row.GitBranch, GitRepo |-> row.GitRepo,
              GitDirty |-> row.GitDirty, GitHeadHash |-> "",
              Tags |-> unmarshalJSON(row.Tags)]

\* a save guard that writes empty lists too
SavesList_Always(list) == TRUE

\* if len(s.X) > 0
SavesList(list) == Len(list) > 0

\* the rows of a component table after the rows of snapshot id are inserted
InsertRows(tbl, id, rows) ==
    [k \in DOMAIN tbl \cup {id} |->
        IF k = id THEN (IF id \in DOMAIN tbl THEN tbl[id] ELSE << >>) \o rows
        ELSE tbl[k]]

-----------------------------------------------------------------------------
(* Inputs.                                                                 *)

SeqsUpTo(S, n) == UNION {[1..k -> S] : k \in 0..n}

EmptyMap == [k \in {} |-> NoMatch]

\* calculateScore inputs: every title x application x size below
Titles == {TEmpty, Tab, TAB, Tabc, Tacb, Tabcx, Tax, TAX, Tayz, Tazy, Taaaaaq}
Apps == {"code", "term"}
Widths == {0, 100, 105}
Heights == {0, 100}
ScoreWindows == {Window(t, a, w, h) : t \in Titles, a \in Apps, w \in Widths, h \in Heights}

\* MatchWindows inputs: lists over six windows, two of which tie for a target
\* titled "ab", two of which share title and application but not width
MaxTargets == 2
MaxCandidates == 2
MatchUniverse ==
    { Window(Tab, "code", 100, 100),
      Window(TAB, "code", 100, 100),
      Window(Tab, "code", 200, 100),
      Window(Tabc, "term", 100, 100),
      Window(Tax, "term", 0, 50),
      Window(TEmpty, "code", 100, 100) }

\* the editor scenario: one target, three candidates of the same app and size
ScenarioTarget == Window(TMain, "Editor", 800, 600)
ScenarioCandidates ==
    << Window(TMain, "Editor", 800, 600),
       Window(TOther, "Editor", 800, 600),
       Window(TUnrelated, "Editor", 800, 600) >>

\* Restore inputs: a stored snapshot "s1" whose window list is any list of at
\* most MaxWindows of three windows of two applications, an id "s2" that is
\* not stored, and any live window list of at most MaxLive windows, one
\* window per application
MaxWindows == 3
MaxLive == 2
StoredUniverse ==
    { Window(TA, "code", 100, 100),
      Window(TB, "code", 100, 100),
      Window(TC, "term", 100, 100) }
LiveUniverse ==
    { Window(TA, "code", 100, 100),
      Window(TC, "term", 100, 100) }
\* stored windows for the Windows adapter: the second one is a little wider
AdapterStoredUniverse ==
    { Window(TA, "code", 100, 100),
      Window(TB, "code", 105, 100),
      Window(TC, "term", 100, 100) }
SnapshotIDs == {"s1", "s2"}
RestoreOptions ==
    [ValidateBeforeRestore : BOOLEAN, SkipMissingApps : BOOLEAN, DryRun : BOOLEAN]

\* the stored record of a snapshot: the fields Restore and Diff read
Snapshot(id, branch, repo) == [ID |-> id, GitBranch |-> branch, GitRepo |-> repo]

\* Diff inputs: stored snapshots "s1" and "s2", each with any window list of at
\* most MaxDiffWindows of the stored windows and with one of four git
\* contexts (none, two branches of a repository, a second repository), and an
\* id "s3" not stored
MaxDiffWindows == 2
DiffIDs == {"s1", "s2", "s3"}
GitContexts == {<<"", "">>, <<"main", "/repo">>, <<"dev", "/repo">>, <<"main", "/other">>}

\* Capture inputs: what the platform enumerates (any list of at most
\* MaxCaptured of two windows, terminals, browser tabs and IDE files, one of
\* each pair holding text the default sanitizer rewrites, or an error), what
\* the git detector finds (an error, no repository, a repository), the
\* capture options, the sanitizer options SetSanitizationOptions installs,
\* the identifier uuid.New() draws, and the store before the first Capture
MaxCaptured == 1
CaptureWindowUniverse ==
    { CapturedWindow(TA, "code", "/home/bob/bin/code"),
      CapturedWindow(TMail, "mail", "/usr/bin/mail") }
TerminalUniverse ==
    { Terminal("/home/bob/src", [API_KEY |-> "k1", my_token |-> "t1", EDITOR |-> "vi"]),
      Terminal("/srv", NoEnv) }
BrowserTabUniverse ==
    { BrowserTab("https://x.io/?token=abc"), BrowserTab("https://x.io/docs") }
IDEFileUniverse ==
    { IDEFile("/home/bob/src/main.go"), IDEFile("/srv/app/main.go") }
Enumerated(U) ==
    {[ok |-> FALSE, data |-> << >>]}
        \cup {[ok |-> TRUE, data |-> d] : d \in SeqsUpTo(U, MaxCaptured)}
GitResults ==
    { [ok |-> FALSE, ctx |-> NoGit],
      [ok |-> TRUE, ctx |-> NoGit],
      [ok |-> TRUE, ctx |-> GitContext("/home/bob/src", "main", TRUE, "h1")] }
CaptureLabels ==
    { [Name |-> "n", Description |-> "d", Tags |-> TagList(<<"t">>)] }
CaptureOptions ==
    { [Name |-> l.Name, Description |-> l.Description, Tags |-> l.Tags,
       IncludeBrowsable |-> b, IncludeTerminals |-> t, Sanitize |-> s] :
         l \in CaptureLabels, b \in BOOLEAN, t \in BOOLEAN, s \in BOOLEAN }
SanitizerOptions ==
    { DefaultOptions, [DefaultOptions EXCEPT !.RedactWindowTitles = TRUE] }
CaptureIDs == {"c1"}
SeedSnapshots == [id \in {"s1"} |-> Snapshot(id, "", "")]
SeedWindows == [id \in {"s1"} |-> <<Window(TA, "code", 100, 100)>>]

-----------------------------------------------------------------------------
(* Values of the variables of an operation that is not running.            *)

NoOpts == [ValidateBeforeRestore |-> FALSE, SkipMissingApps |-> FALSE, DryRun |-> FALSE]

ScoreIdle ==
    /\ target = NoWindow
    /\ candidate = NoWindow
    /\ score = 0
    /\ spc = "idle"

MatchStart ==
    /\ availableCandidates = << >>
    /\ results = EmptyMap
    /\ ti = 0
    /\ pool = << >>
    /\ match = NoMatch

MatchIdle ==
    /\ targets = << >>
    /\ candidates = << >>
    /\ MatchStart
    /\ mpc = "idle"

RestoreIdle ==
    /\ pc = "idle"
    /\ snapshotID = ""
    /\ opts = NoOpts
    /\ sWindows = << >>
    /\ idx = 0
    /\ outcomes = << >>
    /\ validated = "none"
    /\ report = NoReport
    /\ err = ""
    /\ calls = << >>
    /\ ctxDone = FALSE
    /\ moved = << >>

DiffIdle ==
    /\ dpc = "idle"
    /\ diffIDs = <<"", "">>
    /\ diffLoads = <<TRUE, TRUE>>
    /\ diff = NoDiff
    /\ derr = ""

NoCaptureOpts ==
    [Name |-> "", Description |-> "", Tags |-> NilTags,
     IncludeBrowsable |-> FALSE, IncludeTerminals |-> FALSE, Sanitize |-> FALSE]

\* NewManagerV2 installs the default sanitizer; no Capture is running
CaptureIdle ==
    /\ sanitizer = DefaultOptions
    /\ cpc = "idle"
    /\ copts = NoCaptureOpts
    /\ capSnap = NoSnapshot
    /\ clog = << >>
    /\ cresult = NoSnapshot
    /\ cerr = ""

\* no rows in the terminals, browser_tabs and ide_files tables
NoComponents ==
    /\ repoTerminals = [id \in {} |-> << >>]
    /\ repoBrowserTabs = [id \in {} |-> << >>]
    /\ repoIDEFiles = [id \in {} |-> << >>]

RepoEmpty ==
    /\ repoSnapshots = [id \in {} |-> NoReport]
    /\ repoWindows = [id \in {} |-> << >>]
    /\ NoComponents

-----------------------------------------------------------------------------
(* SpecScore: calculateScore applied to one pair of windows.               *)

InitScore ==
    /\ target \in ScoreWindows
    /\ candidate \in ScoreWindows
    /\ score = 0
    /\ spc = "input"
    /\ MatchIdle /\ RepoEmpty /\ live = << >> /\ RestoreIdle /\ DiffIdle /\ CaptureIdle

CalculateScore ==
    /\ spc = "input"
    /\ score' = calculateScore(target, candidate)
    /\ spc' = "scored"
    /\ UNCHANGED <<target, candidate, matchVars, repoVars, live, restoreVars, diffVars, captureVars>>

NextScore == CalculateScore

SpecScore == InitScore /\ [][NextScore]_vars

-----------------------------------------------------------------------------
(* SpecMatch: one MatchWindows call, one target per step.                  *)

InitMatch ==
    /\ \/ /\ targets \in SeqsUpTo(MatchUniverse, MaxTargets)
          /\ candidates \in SeqsUpTo(MatchUniverse, MaxCandidates)
       \/ /\ targets = <<ScenarioTarget>>
          /\ candidates = ScenarioCandidates
    /\ MatchStart
    /\ mpc = "input"
    /\ ScoreIdle /\ RepoEmpty /\ live = << >> /\ RestoreIdle /\ DiffIdle /\ CaptureIdle

\* results := make(map); availableCandidates := copy of candidates
MatchWindowsBegin ==
    /\ mpc = "input"
    /\ mpc' = "loop"
    /\ availableCandidates' = candidates
    /\ results' = EmptyMap
    /\ ti' = 1
    /\ UNCHANGED <<targets, candidates, pool, match>>
    /\ UNCHANGED <<scoreVars, repoVars, live, restoreVars, diffVars, captureVars>>

\* one iteration of "for _, target := range targets"
MatchWindowsStep ==
    /\ mpc = "loop"
    /\ ti <= Len(targets)
    /\ LET r == MatchOne(targets[ti], results, availableCandidates)
       IN  /\ pool' = availableCandidates
           /\ match' = r.match
           /\ results' = r.results
           /\ availableCandidates' = r.availableCandidates
    /\ ti' = ti + 1
    /\ UNCHANGED <<targets, candidates, mpc>>
    /\ UNCHANGED <<scoreVars, repoVars, live, restoreVars, diffVars, captureVars>>

\* return results
MatchWindowsReturn ==
    /\ mpc = "loop"
    /\ ti > Len(targets)
    /\ mpc' = "done"
    /\ UNCHANGED <<targets, candidates, availableCandidates, results, ti, pool, match>>
    /\ UNCHANGED <<scoreVars, repoVars, live, restoreVars, diffVars, captureVars>>

NextMatch == MatchWindowsBegin \/ MatchWindowsStep \/ MatchWindowsReturn

SpecMatch == InitMatch /\ [][NextMatch]_vars

-----------------------------------------------------------------------------
(* Spec: ManagerV2.Restore calls against a repository that holds one       *)
(* snapshot, one RestoreWindow call per step.                               *)

Init ==
    /\ repoSnapshots = [id \in {"s1"} |-> Snapshot(id, "", "")]
    /\ repoWindows \in [{"s1"} -> SeqsUpTo(StoredUniverse, MaxWindows)]
    /\ NoComponents
    /\ live \in SeqsUpTo(LiveUniverse, MaxLive)
    /\ RestoreIdle
    /\ ScoreIdle /\ MatchIdle /\ DiffIdle /\ CaptureIdle

\* Restore from its entry to the first of: an error return, the validation
\* gate, the dry run return, the start of the loop
RestoreStart ==
    /\ pc = "idle"
    /\ \E id \in SnapshotIDs, o \in RestoreOptions, snapOk, winOk, liveOk \in BOOLEAN :
          LET r == RestoreEntry(repoSnapshots, repoWindows, id, o, snapOk, winOk,
                                [ok |-> liveOk, windows |-> live])
          IN  /\ snapshotID' = id
              /\ opts' = o
              /\ pc' = r.pc
              /\ sWindows' = r.sWindows
              /\ idx' = r.idx
              /\ validated' = r.validated
              /\ report' = r.report
              /\ err' = r.err
              /\ calls' = r.calls
    /\ outcomes' = << >>
    /\ moved' = << >>
    /\ UNCHANGED ctxDone
    /\ UNCHANGED <<scoreVars, matchVars, repoVars, live, diffVars, captureVars>>

\* the caller cancels ctx, or its deadline passes, while Restore is in its
\* loop; nothing in Restore or in the platform adapters reads ctx
CancelContext ==
    /\ pc = "loop"
    /\ ~ctxDone
    /\ ctxDone' = TRUE
    /\ UNCHANGED <<pc, snapshotID, opts, sWindows, idx, outcomes, validated, report, err, calls,
                   moved>>
    /\ UNCHANGED <<scoreVars, matchVars, repoVars, live, diffVars, captureVars>>

\* one iteration of "for _, w := range s.Windows": platform.RestoreWindow
\* returns nil or an error
RestoreStep ==
    /\ pc = "loop"
    /\ idx <= Len(sWindows)
    /\ \E ok \in BOOLEAN :
          /\ calls' = Append(calls, PlatformCall("RestoreWindow", sWindows[idx]))
          /\ outcomes' = Append(outcomes, ok)
          /\ report' = AfterRestoreWindow(report, sWindows[idx], ok)
          /\ idx' = NextIndex(idx, ok, Len(sWindows))
    /\ UNCHANGED <<pc, snapshotID, opts, sWindows, validated, err, ctxDone, moved>>
    /\ UNCHANGED <<scoreVars, matchVars, repoVars, live, diffVars, captureVars>>

\* after the loop: Success, Message, return report, nil
RestoreFinish ==
    /\ pc = "loop"
    /\ idx > Len(sWindows)
    /\ report' = FinalReport(report)
    /\ err' = ""
    /\ pc' = "done"
    /\ UNCHANGED <<snapshotID, opts, sWindows, idx, outcomes, validated, calls, ctxDone, moved>>
    /\ UNCHANGED <<scoreVars, matchVars, repoVars, live, diffVars, captureVars>>

\* the caller has the result; the manager keeps no state between calls
RestoreReturn ==
    /\ pc = "done"
    /\ pc' = "idle"
    /\ snapshotID' = ""
    /\ opts' = NoOpts
    /\ sWindows' = << >>
    /\ idx' = 0
    /\ outcomes' = << >>
    /\ validated' = "none"
    /\ report' = NoReport
    /\ err' = ""
    /\ calls' = << >>
    /\ ctxDone' = FALSE
    /\ moved' = << >>
    /\ UNCHANGED <<scoreVars, matchVars, repoVars, live, diffVars, captureVars>>

Next == RestoreStart \/ RestoreStep \/ CancelContext \/ RestoreFinish \/ RestoreReturn

Spec == Init /\ [][Next]_vars

-----------------------------------------------------------------------------
(* SpecWindows: ManagerV2.Restore with WindowsAdapterV2 as its platform,   *)
(* one RestoreWindow call per step.                                        *)

InitWindows ==
    /\ repoSnapshots = [id \in {"s1"} |-> Snapshot(id, "", "")]
    /\ repoWindows \in [{"s1"} -> SeqsUpTo(AdapterStoredUniverse, MaxWindows)]
    /\ NoComponents
    /\ live \in SeqsUpTo(LiveUniverse, MaxLive)
    /\ RestoreIdle
    /\ ScoreIdle /\ MatchIdle /\ DiffIdle /\ CaptureIdle

\* one iteration of the restore loop, platform.RestoreWindow being
\* WindowsAdapterV2.RestoreWindow
WindowsRestoreStep ==
    /\ pc = "loop"
    /\ idx <= Len(sWindows)
    /\ \E getOk, setOk \in BOOLEAN :
          LET r == RestoreWindow(sWindows[idx], live, getOk, setOk)
          IN  /\ calls' = Append(calls, PlatformCall("RestoreWindow", sWindows[idx]))
              /\ outcomes' = Append(outcomes, r.ok)
              /\ report' = AfterRestoreWindow(report, sWindows[idx], r.ok)
              /\ idx' = NextIndex(idx, r.ok, Len(sWindows))
              /\ live' = r.live
              /\ moved' = IF r.ok
                          THEN Append(moved, [window |-> sWindows[idx], hwnd |-> r.hwnd])
                          ELSE moved
    /\ UNCHANGED <<pc, snapshotID, opts, sWindows, validated, err, ctxDone>>
    /\ UNCHANGED <<scoreVars, matchVars, repoVars, diffVars, captureVars>>

NextWindows == RestoreStart \/ WindowsRestoreStep \/ RestoreFinish \/ RestoreReturn

SpecWindows == InitWindows /\ [][NextWindows]_vars

-----------------------------------------------------------------------------
(* SpecDiff: ManagerV2.Diff calls against a repository that holds two      *)
(* snapshots.                                                               *)

InitDiff ==
    /\ \E g1, g2 \in GitContexts :
          repoSnapshots = [id \in {"s1", "s2"} |->
                              IF id = "s1" THEN Snapshot(id, g1[1], g1[2])
                                           ELSE Snapshot(id, g2[1], g2[2])]
    /\ repoWindows \in [{"s1", "s2"} -> SeqsUpTo(StoredUniverse, MaxDiffWindows)]
    /\ NoComponents
    /\ live = << >>
    /\ DiffIdle
    /\ ScoreIdle /\ MatchIdle /\ RestoreIdle /\ CaptureIdle

\* one whole Diff call
DiffCall ==
    /\ dpc = "idle"
    /\ \E id1, id2 \in DiffIDs, snapOk1, snapOk2, winOk1, winOk2 \in BOOLEAN :
          \E r \in Diff(repoSnapshots, repoWindows, id1, id2,
                        snapOk1, snapOk2, winOk1, winOk2) :
              /\ diffIDs' = <<id1, id2>>
              /\ diffLoads' = <<winOk1, winOk2>>
              /\ diff' = r[1]
              /\ derr' = r[2]
    /\ dpc' = "done"
    /\ UNCHANGED <<scoreVars, matchVars, repoVars, live, restoreVars, captureVars>>

\* the caller has the result
DiffReturn ==
    /\ dpc = "done"
    /\ dpc' = "idle"
    /\ diffIDs' = <<"", "">>
    /\ diffLoads' = <<TRUE, TRUE>>
    /\ diff' = NoDiff
    /\ derr' = ""
    /\ UNCHANGED <<scoreVars, matchVars, repoVars, live, restoreVars, captureVars>>

NextDiff == DiffCall \/ DiffReturn

SpecDiff == InitDiff /\ [][NextDiff]_vars

-----------------------------------------------------------------------------
(* SpecCapture: ManagerV2.Capture calls against a repository that holds    *)
(* one snapshot, one collaborator call per step.                           *)

nonCaptureVars == <<scoreVars, matchVars, live, restoreVars, diffVars>>

InitCapture ==
    /\ repoSnapshots = SeedSnapshots
    /\ repoWindows = SeedWindows
    /\ NoComponents
    /\ live \in SeqsUpTo(CaptureWindowUniverse, MaxCaptured)
    /\ CaptureIdle
    /\ ScoreIdle /\ MatchIdle /\ RestoreIdle /\ DiffIdle

\* return nil, fmt.Errorf(msg, err)
CaptureFail(msg) ==
    /\ cpc' = "done"
    /\ cresult' = NoSnapshot
    /\ cerr' = msg

\* go on with the statement after step
CaptureProceed(step) ==
    /\ cpc' = AfterStep(step)
    /\ UNCHANGED <<cresult, cerr>>

\* ManagerV2.SetSanitizationOptions(opts)
SetSanitizationOptions ==
    /\ cpc = "idle"
    /\ \E o \in SanitizerOptions : sanitizer' = o
    /\ UNCHANGED <<cpc, copts, capSnap, clog, cresult, cerr, repoVars, nonCaptureVars>>

\* Capture's entry: the new snapshot with a fresh identifier
CaptureBegin ==
    /\ cpc = "idle"
    /\ \E o \in CaptureOptions, id \in CaptureIDs \ DOMAIN repoSnapshots :
          /\ copts' = o
          /\ capSnap' = NewSnapshot(id, o)
    /\ clog' = << >>
    /\ cpc' = CaptureSteps[1]
    /\ cresult' = NoSnapshot
    /\ cerr' = ""
    /\ UNCHANGED <<sanitizer, repoVars, nonCaptureVars>>

\* 1. Capture Windows
CaptureGetWindows ==
    /\ cpc = "GetWindows"
    /\ \E ok \in BOOLEAN :
          LET res == [ok |-> ok, data |-> IF ok THEN live ELSE << >>]
              r == CaptureWindows(capSnap, res)
          IN  /\ clog' = Append(clog, Call("GetWindows", ok, res.data))
              /\ capSnap' = r.s
              /\ IF r.err # "" THEN CaptureFail(r.err) ELSE CaptureProceed("GetWindows")
    /\ UNCHANGED <<sanitizer, copts, repoVars, nonCaptureVars>>

\* 2. Capture Terminals
CaptureGetTerminals ==
    /\ cpc = "GetTerminals"
    /\ IF CallsGetTerminals(copts)
       THEN \E res \in Enumerated(TerminalUniverse) :
              LET r == CaptureTerminals(capSnap, res)
              IN  /\ clog' = Append(clog, Call("GetTerminals", res.ok, res.data))
                  /\ capSnap' = r.s
                  /\ IF r.err # "" THEN CaptureFail(r.err)
                                   ELSE CaptureProceed("GetTerminals")
       ELSE /\ UNCHANGED <<clog, capSnap>>
            /\ CaptureProceed("GetTerminals")
    /\ UNCHANGED <<sanitizer, copts, repoVars, nonCaptureVars>>

\* 3. Capture Git Context
CaptureDetectContext ==
    /\ cpc = "DetectContext"
    /\ \E res \in GitResults :
          /\ clog' = Append(clog, Call("DetectContext", res.ok, res.ctx))
          /\ capSnap' = CaptureGitContext(capSnap, res)
    /\ CaptureProceed("DetectContext")
    /\ UNCHANGED <<sanitizer, copts, repoVars, nonCaptureVars>>

\* 4. Capture Browsers
CaptureGetBrowserTabs ==
    /\ cpc = "GetBrowserTabs"
    /\ IF CallsGetBrowserTabs(copts)
       THEN \E res \in Enumerated(BrowserTabUniverse) :
              /\ clog' = Append(clog, Call("GetBrowserTabs", res.ok, res.data))
              /\ capSnap' = [capSnap EXCEPT !.BrowserTabs = KeptList(res)]
       ELSE UNCHANGED <<clog, capSnap>>
    /\ CaptureProceed("GetBrowserTabs")
    /\ UNCHANGED <<sanitizer, copts, repoVars, nonCaptureVars>>

\* 5. Capture IDEs
CaptureGetIDEFiles ==
    /\ cpc = "GetIDEFiles"
    /\ \E res \in Enumerated(IDEFileUniverse) :
          /\ clog' = Append(clog, Call("GetIDEFiles", res.ok, res.data))
          /\ capSnap' = [capSnap EXCEPT !.IDEFiles = KeptList(res)]
    /\ CaptureProceed("GetIDEFiles")
    /\ UNCHANGED <<sanitizer, copts, repoVars, nonCaptureVars>>

\* 6. Sanitize if requested
CaptureSanitize ==
    /\ cpc = "SanitizeSnapshot"
    /\ clog' = IF copts.Sanitize
               THEN Append(clog, Call("SanitizeSnapshot", TRUE, capSnap))
               ELSE clog
    /\ capSnap' = SanitizedIfRequested(copts, sanitizer, capSnap)
    /\ CaptureProceed("SanitizeSnapshot")
    /\ UNCHANGED <<sanitizer, copts, repoVars, nonCaptureVars>>

\* 7. Save to DB: m.repo.CreateSnapshot(ctx, s)
CaptureCreateSnapshot ==
    /\ cpc = "CreateSnapshot"
    /\ \E ok \in BOOLEAN :
          /\ clog' = Append(clog, Call("CreateSnapshot", ok, SnapshotRow(capSnap)))
          /\ IF ok
             THEN /\ repoSnapshots' =
                        [k \in DOMAIN repoSnapshots \cup {capSnap.ID} |->
                            IF k = capSnap.ID THEN SnapshotRow(capSnap)
                            ELSE repoSnapshots[k]]
                  /\ CaptureProceed("CreateSnapshot")
             ELSE /\ UNCHANGED repoSnapshots
                  /\ CaptureFail("failed to save snapshot metadata")
    /\ UNCHANGED <<sanitizer, copts, capSnap, nonCaptureVars>>
    /\ UNCHANGED <<repoWindows, repoTerminals, repoBrowserTabs, repoIDEFiles>>

\* m.repo.SaveWindows(ctx, s.ID, s.Windows)
CaptureSaveWindows ==
    /\ cpc = "SaveWindows"
    /\ IF SavesList(capSnap.Windows)
       THEN \E ok \in BOOLEAN :
              /\ clog' = Append(clog, Call("SaveWindows", ok, capSnap.Windows))
              /\ IF ok
                 THEN /\ repoWindows' = InsertRows(repoWindows, capSnap.ID, capSnap.Windows)
                      /\ CaptureProceed("SaveWindows")
                 ELSE /\ UNCHANGED repoWindows
                      /\ CaptureFail("failed to save windows")
       ELSE /\ UNCHANGED <<clog, repoWindows>>
            /\ CaptureProceed("SaveWindows")
    /\ UNCHANGED <<sanitizer, copts, capSnap, nonCaptureVars>>
    /\ UNCHANGED <<repoSnapshots, repoTerminals, repoBrowserTabs, repoIDEFiles>>

\* m.repo.SaveTerminals(ctx, s.ID, s.Terminals)
CaptureSaveTerminals ==
    /\ cpc = "SaveTerminals"
    /\ IF SavesList(capSnap.Terminals)
       THEN \E ok \in BOOLEAN :
              /\ clog' = Append(clog, Call("SaveTerminals", ok, capSnap.Terminals))
              /\ IF ok
                 THEN /\ repoTerminals' =
                            InsertRows(repoTerminals, capSnap.ID, capSnap.Terminals)
                      /\ CaptureProceed("SaveTerminals")
                 ELSE /\ UNCHANGED repoTerminals
                      /\ CaptureFail("failed to save terminals")
       ELSE /\ UNCHANGED <<clog, repoTerminals>>
            /\ CaptureProceed("SaveTerminals")
    /\ UNCHANGED <<sanitizer, copts, capSnap, nonCaptureVars>>
    /\ UNCHANGED <<repoSnapshots, repoWindows, repoBrowserTabs, repoIDEFiles>>

\* m.repo.SaveBrowserTabs(ctx, s.ID, s.BrowserTabs)
CaptureSaveBrowserTabs ==
    /\ cpc = "SaveBrowserTabs"
    /\ IF SavesList(capSnap.BrowserTabs)
       THEN \E ok \in BOOLEAN :
              /\ clog' = Append(clog, Call("SaveBrowserTabs", ok, capSnap.BrowserTabs))
              /\ IF ok
                 THEN /\ repoBrowserTabs' =
                            InsertRows(repoBrowserTabs, capSnap.ID, capSnap.BrowserTabs)
                      /\ CaptureProceed("SaveBrowserTabs")
                 ELSE /\ UNCHANGED repoBrowserTabs
                      /\ CaptureFail("failed to save browser tabs")
       ELSE /\ UNCHANGED <<clog, repoBrowserTabs>>
            /\ CaptureProceed("SaveBrowserTabs")
    /\ UNCHANGED <<sanitizer, copts, capSnap, nonCaptureVars>>
    /\ UNCHANGED <<repoSnapshots, repoWindows, repoTerminals, repoIDEFiles>>

\* m.repo.SaveIDEFiles(ctx, s.ID, s.IDEFiles)
CaptureSaveIDEFiles ==
    /\ cpc = "SaveIDEFiles"
    /\ IF SavesList(capSnap.IDEFiles)
       THEN \E ok \in BOOLEAN :
              /\ clog' = Append(clog, Call("SaveIDEFiles", ok, capSnap.IDEFiles))
              /\ IF ok
                 THEN /\ repoIDEFiles' =
                            InsertRows(repoIDEFiles, capSnap.ID, capSnap.IDEFiles)
                      /\ CaptureProceed("SaveIDEFiles")
                 ELSE /\ UNCHANGED repoIDEFiles
                      /\ CaptureFail("failed to save ide files")
       ELSE /\ UNCHANGED <<clog, repoIDEFiles>>
            /\ CaptureProceed("SaveIDEFiles")
    /\ UNCHANGED <<sanitizer, copts, capSnap, nonCaptureVars>>
    /\ UNCHANGED <<repoSnapshots, repoWindows, repoTerminals, repoBrowserTabs>>

\* return s, nil
CaptureFinish ==
    /\ cpc = "return"
    /\ cresult' = capSnap
    /\ cerr' = ""
    /\ cpc' = "done"
    /\ UNCHANGED <<sanitizer, copts, capSnap, clog, repoVars, nonCaptureVars>>

\* the caller has the result; only the sanitizer outlives the call
CaptureReturn ==
    /\ cpc = "done"
    /\ cpc' = "idle"
    /\ copts' = NoCaptureOpts
    /\ capSnap' = NoSnapshot
    /\ clog' = << >>
    /\ cresult' = NoSnapshot
    /\ cerr' = ""
    /\ UNCHANGED <<sanitizer, repoVars, nonCaptureVars>>

NextCapture ==
    \/ SetSanitizationOptions
    \/ CaptureBegin
    \/ CaptureGetWindows
    \/ CaptureGetTerminals
    \/ CaptureDetectContext
    \/ CaptureGetBrowserTabs
    \/ CaptureGetIDEFiles
    \/ CaptureSanitize
    \/ CaptureCreateSnapshot
    \/ CaptureSaveWindows
    \/ CaptureSaveTerminals
    \/ CaptureSaveBrowserTabs
    \/ CaptureSaveIDEFiles
    \/ CaptureFinish
    \/ CaptureReturn

SpecCapture == InitCapture /\ [][NextCapture]_vars

-----------------------------------------------------------------------------
(* Properties of ManagerV2.Restore.                                        *)

\* the windows passed to platform.RestoreWindow so far, in call order
RestoreWindowCalls ==
    LET rc == SelectSeq(calls, LAMBDA c : c.call = "RestoreWindow")
    IN  [i \in DOMAIN rc |-> rc[i].window]

\* the snapshot and its windows were loaded: Restore built a report
Loaded == pc # "idle" /\ report # NoReport
StoredWindows == repoWindows[snapshotID]
AppsOf(ws) == {ws[i].AppName : i \in DOMAIN ws}

\* the validation gate's case: validation asked for, SkipMissingApps off, the
\* current window set obtained, and an application of the stored windows not
\* in it
GateCase ==
    /\ Loaded
    /\ opts.ValidateBeforeRestore
    /\ ~opts.SkipMissingApps
    /\ validated = "ok"
    /\ AppsOf(StoredWindows) \ AppsOf(live) # {}

\* a Restore that has returned, was no dry run and was not stopped by the gate
CompletedRestore == pc = "done" /\ Loaded /\ ~opts.DryRun /\ ~GateCase

\* the titles of the windows whose RestoreWindow call failed, in call order
RECURSIVE FailedTitles(_, _)
FailedTitles(ws, outs) ==
    IF outs = << >> THEN << >>
    ELSE IF Head(outs) THEN FailedTitles(Tail(ws), Tail(outs))
         ELSE <<Head(ws).WindowTitle>> \o FailedTitles(Tail(ws), Tail(outs))

OkCount == Cardinality({i \in DOMAIN outcomes : outcomes[i]})
FailCount == Cardinality({i \in DOMAIN outcomes : ~outcomes[i]})

\* C1: in a Restore that is no dry run and is not stopped by the validation
\* gate, RestoreWindow is called once for every stored window, in stored
\* order, whichever calls fail: inside the loop the calls made are the first
\* idx - 1 stored windows, and at the return they are all of them.
C1_EveryWindowAttemptedInOrder ==
    /\ pc = "loop" => RestoreWindowCalls = SubSeq(StoredWindows, 1, idx - 1)
    /\ CompletedRestore => RestoreWindowCalls = StoredWindows

\* the first of three windows failed and the two after it were attempted
C1_Witness ==
    /\ CompletedRestore
    /\ Len(StoredWindows) = 3
    /\ outcomes[1] = FALSE
    /\ Len(RestoreWindowCalls) = 3

\* C2: the report of a completed Restore counts what happened: TotalWindows
\* is the number of stored windows, RestoredWindows the number of
\* RestoreWindow calls that returned nil, FailedWindows and Errors hold one
\* entry per failed call, so RestoredWindows + len(FailedWindows) =
\* TotalWindows.
C2_ReportCountsOutcomes ==
    CompletedRestore =>
        /\ report.TotalWindows = Len(StoredWindows)
        /\ report.RestoredWindows = OkCount
        /\ report.FailedWindows = FailedTitles(StoredWindows, outcomes)
        /\ Len(report.FailedWindows) = FailCount
        /\ Len(report.Errors) = FailCount
        /\ \A k \in DOMAIN report.Errors : report.Errors[k][1] = report.FailedWindows[k]
        /\ report.RestoredWindows + Len(report.FailedWindows) = report.TotalWindows

\* three windows, the second fails: restored 2 of 3, one failure entry
C2_Witness ==
    /\ CompletedRestore
    /\ outcomes = <<TRUE, FALSE, TRUE>>
    /\ report.RestoredWindows = 2
    /\ report.TotalWindows = 3
    /\ Len(report.FailedWindows) = 1

\* C3: a Restore that reached the loop returns a nil error, and its report's
\* Success is true exactly when at least one RestoreWindow call succeeded;
\* failed calls show only in the failure list.
C3_SuccessIffOneRestored ==
    (pc = "done" /\ idx >= 1) =>
        /\ err = ""
        /\ report.Success <=> (\E i \in DOMAIN outcomes : outcomes[i])
        /\ report.Success <=> report.RestoredWindows >= 1

\* partial success: nil error, Success, and a non-empty failure list
C3_Witness ==
    /\ pc = "done"
    /\ idx >= 1
    /\ err = ""
    /\ report.Success
    /\ report.FailedWindows # << >>

\* C4: in the validation gate's case Restore returns an error, Success is
\* false, MissingApps holds the missing applications, and no RestoreWindow
\* call is made at any point: RestoredWindows is 0.
C4_GateStopsBeforeAnyWindow ==
    GateCase =>
        /\ pc = "done"
        /\ err # ""
        /\ report.Success = FALSE
        /\ Range(report.MissingApps) = AppsOf(StoredWindows) \ AppsOf(live)
        /\ report.RestoredWindows = 0
        /\ RestoreWindowCalls = << >>

\* the gate stopped a snapshot of several windows, one application running
C4_Witness ==
    /\ GateCase
    /\ pc = "done"
    /\ Len(StoredWindows) >= 2
    /\ live # << >>

\* C5 as stated: a dry run of a stored snapshot, whatever the other options
\* and the live windows, makes no RestoreWindow call and reports DryRun and
\* Success.
C5_DryRunAlwaysSucceeds ==
    (pc = "done" /\ Loaded /\ opts.DryRun) =>
        /\ RestoreWindowCalls = << >>
        /\ report.DryRun
        /\ report.Success

\* C5 amended: a dry run never calls RestoreWindow; it reports DryRun and
\* Success with a nil error unless the validation gate stops it first.
C5_DryRunUnlessGate ==
    /\ (pc # "idle" /\ opts.DryRun) => RestoreWindowCalls = << >>
    /\ (pc = "done" /\ Loaded /\ opts.DryRun /\ ~GateCase) =>
          /\ report.DryRun
          /\ report.Success
          /\ err = ""

\* a dry run with validation on and SkipMissingApps on, an application missing
C5_Witness ==
    /\ pc = "done"
    /\ Loaded
    /\ opts.DryRun
    /\ opts.ValidateBeforeRestore
    /\ opts.SkipMissingApps
    /\ report.MissingApps # << >>
    /\ report.DryRun

\* the errors of the exits of Restore that precede the report
LoadErrors == {"failed to get snapshot", "snapshot not found", "failed to get windows"}

\* C17: Restore returns an error and no report, and issues no platform call
\* at all (neither GetWindows nor RestoreWindow), when the repository has no
\* snapshot for the id, when GetSnapshotByID fails, or when
\* repository.GetWindows fails for that id.
C17_LoadFailureTouchesNoPlatform ==
    /\ (pc = "done" /\ snapshotID \notin DOMAIN repoSnapshots) =>
          err \in {"failed to get snapshot", "snapshot not found"}
    /\ (pc = "done" /\ report = NoReport) => err \in LoadErrors
    /\ (pc = "done" /\ err \in LoadErrors) =>
          /\ report = NoReport
          /\ calls = << >>
          /\ outcomes = << >>
    /\ pc = "loop" => err \notin LoadErrors

\* Restore of a stored snapshot whose windows cannot be loaded
C17_Witness ==
    /\ pc = "done"
    /\ report = NoReport
    /\ snapshotID = "s1"
    /\ err = "failed to get windows"

\* Restore of an id that is not stored
C17_NotFoundReached ==
    pc = "done" /\ snapshotID = "s2" /\ err = "snapshot not found"

\* C19: if the caller's context is cancelled while Restore is between two
\* windows, Restore stops before starting the next window: no
\* platform.RestoreWindow call is started once the cancellation is observable.
C19_NoWindowStartedAfterCancel ==
    [][ctxDone => Len(calls') <= Len(calls)]_vars

\* a RestoreWindow call recorded while ctx is cancelled and windows are left
C19_CancelledBetweenWindows ==
    /\ pc = "loop"
    /\ ctxDone
    /\ idx > 1
    /\ idx <= Len(sWindows)

\* C18 for Restore: a failing platform.GetWindows inside restore validation
\* makes Restore return an error.
C18_ValidationErrorIsReturned ==
    (pc = "done" /\ validated = "failed") => err # ""

\* the position of the first stored window of application app
FirstWindowOf(app) ==
    CHOOSE i \in DOMAIN StoredWindows :
        /\ StoredWindows[i].AppName = app
        /\ \A j \in 1..(i - 1) : StoredWindows[j].AppName # app

\* validation was asked for and platform.GetWindows returned the current
\* windows
Validated == Loaded /\ opts.ValidateBeforeRestore /\ validated = "ok"

\* C24: with ValidateBeforeRestore, report.MissingApps holds exactly the
\* applications that are on a stored window and on no current window, each
\* once, in the order of their first stored window; with SkipMissingApps a
\* non-empty MissingApps does not stop the restore: no error is returned and
\* every stored window is passed to RestoreWindow.
C24_MissingAppsInOrderOfFirstOccurrence ==
    Validated =>
        /\ Range(report.MissingApps) = AppsOf(StoredWindows) \ AppsOf(live)
        /\ \A i, j \in DOMAIN report.MissingApps :
              i < j => FirstWindowOf(report.MissingApps[i]) <
                       FirstWindowOf(report.MissingApps[j])
        /\ (opts.SkipMissingApps /\ ~opts.DryRun /\ pc = "done") =>
              /\ err = ""
              /\ RestoreWindowCalls = StoredWindows

\* three stored windows of two applications, none of them running, the
\* second application first: both are reported, and the restore goes on
C24_Witness ==
    /\ Validated
    /\ opts.SkipMissingApps
    /\ ~opts.DryRun
    /\ pc = "done"
    /\ live = << >>
    /\ Len(StoredWindows) = 3
    /\ report.MissingApps = <<"term", "code">>
    /\ Len(RestoreWindowCalls) = 3

\* C28: with ValidateBeforeRestore and without SkipMissingApps, Restore
\* calls RestoreWindow only if the current window set was obtained and holds
\* every application of the stored windows; when platform.GetWindows fails
\* during validation no window is repositioned.
C28_NoRestoreWithoutValidation ==
    (Loaded /\ opts.ValidateBeforeRestore /\ ~opts.SkipMissingApps) =>
        /\ RestoreWindowCalls # << >> =>
              /\ validated = "ok"
              /\ AppsOf(StoredWindows) \subseteq AppsOf(live)
        /\ validated = "failed" => RestoreWindowCalls = << >>

\* C29: every report Restore returns is consistent: its Message is "All
\* windows restored successfully" only if Success is true and
\* RestoredWindows = TotalWindows >= 1, a snapshot without stored windows
\* included; and whenever Success is false, either an error is returned or
\* the Message is "Restored N/M windows" with N = 0.
C29_ReportIsConsistent ==
    (pc = "done" /\ Loaded) =>
        /\ report.Message.text = "All windows restored successfully" =>
              /\ report.Success
              /\ report.RestoredWindows = report.TotalWindows
              /\ report.TotalWindows >= 1
        /\ ~report.Success =>
              \/ err # ""
              \/ /\ report.Message.text = "Restored %d/%d windows"
                 /\ report.Message.n = 0

\* C26: during one Restore over the Windows adapter no live window is
\* repositioned on behalf of two different stored windows.
C26_NoLiveWindowMovedTwice ==
    \A i, j \in DOMAIN moved :
        moved[i].hwnd = moved[j].hwnd => moved[i].window = moved[j].window

-----------------------------------------------------------------------------
(* Properties of the matcher.                                              *)

\* a FindBestMatch call of the running MatchWindows has returned: its target
\* is targets[ti - 1], its candidates are pool, its result is match
Called == mpc # "input" /\ ti > 1
LastTarget == targets[ti - 1]
ScoreOf(i) == calculateScore(LastTarget, pool[i])
MaxSelfScore == ExactTitleScore + SameAppScore + SameSizeScore

\* the identity MatchWindows' callers have for a candidate
CandidateKey(w) == <<w.WindowTitle, w.AppName, w.Width>>

\* C6: the mapping MatchWindows builds never holds the same candidate
\* (title + application + width) under two different targets, at any point
\* of the loop and in the map it returns.
C6_NoCandidateUnderTwoTargets ==
    \A k1, k2 \in DOMAIN results :
        k1 # k2 => CandidateKey(results[k1].Window) # CandidateKey(results[k2].Window)

\* two targets are matched, and the candidate given to the first would have
\* been acceptable for the second had it stayed in the pool
C6_Witness ==
    /\ mpc = "done"
    /\ Len(targets) = 2
    /\ targets[1].WindowTitle # targets[2].WindowTitle
    /\ DOMAIN results = {targets[1].WindowTitle, targets[2].WindowTitle}
    /\ calculateScore(targets[2], results[targets[1].WindowTitle].Window) >= MinimumScore

\* C7: FindBestMatch returns no match, or a result whose Window is one of the
\* candidates, whose Score is calculateScore(target, Window) and is at least
\* MinimumScore; without candidates it returns no match.
C7_BestMatchIsAcceptableCandidate ==
    Called =>
        /\ match # NoMatch =>
              /\ \E i \in DOMAIN pool : pool[i] = match.Window
              /\ match.Score = calculateScore(LastTarget, match.Window)
              /\ match.Score >= MinimumScore
        /\ pool = << >> => match = NoMatch

\* a match is returned although another candidate scores below MinimumScore
C7_Witness ==
    /\ Called
    /\ match # NoMatch
    /\ \E i \in DOMAIN pool : ScoreOf(i) < MinimumScore

\* C8: calculateScore(W, W) = ExactTitleScore + SameAppScore + SameSizeScore
\* for every window W, widths and heights of 0 included.
C8_SelfMatchIsMaximal ==
    (spc = "scored" /\ target = candidate) => score = MaxSelfScore

\* C9: when the greatest score over the candidates is at least MinimumScore,
\* FindBestMatch returns the first candidate of the list that has it, with
\* that score; in the editor scenario that is the first candidate, with 160.
C9_FirstMaximumWins ==
    Called =>
        /\ \A j \in DOMAIN pool :
              ( /\ ScoreOf(j) >= MinimumScore
                /\ \A i \in DOMAIN pool : ScoreOf(i) <= ScoreOf(j)
                /\ \A i \in 1..(j - 1) : ScoreOf(i) < ScoreOf(j) )
              => match = [Window |-> pool[j], Score |-> ScoreOf(j)]
        /\ (LastTarget = ScenarioTarget /\ pool = ScenarioCandidates)
              => match = [Window |-> ScenarioCandidates[1], Score |-> 160]

\* two different candidates tie for the greatest score; the earlier is returned
C9_Witness ==
    /\ Called
    /\ match # NoMatch
    /\ \E i, j \in DOMAIN pool :
          /\ i < j
          /\ pool[i] # pool[j]
          /\ ScoreOf(i) = ScoreOf(j)
          /\ \A k \in DOMAIN pool : ScoreOf(k) <= ScoreOf(i)
          /\ match.Window = pool[i]

\* the editor scenario has been matched
C9_ScenarioReached ==
    Called /\ LastTarget = ScenarioTarget /\ pool = ScenarioCandidates

\* C23: one iteration of MatchWindows removes from the available candidates
\* exactly the matched candidate (title + application + width): a candidate
\* with the same title and application but another width stays available,
\* and an unmatched target removes nothing.
C23_OnlyMatchedCandidateRemoved ==
    Called =>
        availableCandidates =
            SelectSeq(pool, LAMBDA w : \/ match = NoMatch
                                      \/ CandidateKey(w) # CandidateKey(match.Window))

\* the number of targets before targets[ti] for which FindBestMatch found a
\* match, from target i on with the candidates avail
RECURSIVE MatchesFound(_, _)
MatchesFound(i, avail) ==
    IF i >= ti THEN 0
    ELSE LET m == FindBestMatch(targets[i], avail)
         IN  IF m = NoMatch THEN MatchesFound(i + 1, avail)
             ELSE 1 + MatchesFound(i + 1, removeWindow(avail, m.Window))

\* C27: MatchWindows reports every assignment: the mapping has as many
\* entries as there are targets for which FindBestMatch found a match, and
\* every candidate no longer available is the Window of some entry, also
\* when two targets have the same title.
C27_EveryAssignmentReported ==
    mpc # "input" =>
        /\ Cardinality(DOMAIN results) = MatchesFound(1, candidates)
        /\ \A i \in DOMAIN candidates :
              candidates[i] \notin Range(availableCandidates) =>
                  \E k \in DOMAIN results : results[k].Window = candidates[i]

\* the title part of the score calculateScore returned: the score less the
\* application and size parts
AppPart == IF target.AppName = candidate.AppName THEN SameAppScore ELSE 0
SizePart == IF isSimilarSize(target, candidate) THEN SameSizeScore ELSE 0
TitlePart == score - AppPart - SizePart
Scored == spc = "scored"
Titled(t, c) == Scored /\ target.WindowTitle = t /\ candidate.WindowTitle = c

\* the four rules of the title signal on the scored pair
TargetLower == ToLower(target.WindowTitle)
CandidateLower == ToLower(candidate.WindowTitle)
EqualIgnoringCase == TargetLower = CandidateLower
EitherContainsOther ==
    Contains(CandidateLower, TargetLower) \/ Contains(TargetLower, CandidateLower)
CommonChars == Cardinality(Range(TargetLower) \cap Range(CandidateLower))
AllChars == Cardinality(Range(TargetLower) \cup Range(CandidateLower))
JaccardAbove70 == 10 * CommonChars > 7 * AllChars
TargetTokens == Fields(target.WindowTitle)
CandidateTokens == Fields(candidate.WindowTitle)
CommonTokens ==
    Cardinality({j \in DOMAIN CandidateTokens :
                    \E i \in DOMAIN TargetTokens :
                        ToLower(TargetTokens[i]) = ToLower(CandidateTokens[j])})

\* C21: scoreTitleMatch returns the result of the first applicable rule, in
\* this order, and of no later rule: (1) titles equal, case-sensitively or
\* not: ExactTitleScore; (2) either lowercased title is a substring of the
\* other: PartialTitleScore; (3) Jaccard similarity of the character sets of
\* the lowercased titles above 0.70: floor(PartialTitleScore * similarity);
\* (4) a non-zero number of common tokens: (commonTokens * PartialTitleScore)
\* divided by the number of target tokens, as integers; otherwise 0.
C21_FirstApplicableTitleRule ==
    Scored =>
        /\ TitlePart =
              IF EqualIgnoringCase THEN ExactTitleScore
              ELSE IF EitherContainsOther THEN PartialTitleScore
              ELSE IF JaccardAbove70 THEN (PartialTitleScore * CommonChars) \div AllChars
              ELSE IF CommonTokens > 0
                   THEN (CommonTokens * PartialTitleScore) \div Len(TargetTokens)
              ELSE 0
        /\ Titled(Tab, TAB) => TitlePart = 100
        /\ Titled(Tab, Tabc) => TitlePart = 50
        /\ Titled(Tabcx, Tab) => TitlePart = 50
        /\ Titled(Tabcx, Tacb) => TitlePart = 37
        /\ Titled(Tayz, Tazy) => TitlePart = 50
        /\ Titled(Tax, Tayz) => TitlePart = 25
        /\ Titled(Tab, Tax) => TitlePart = 0

\* "a yz" against "a zy": neither equal nor one in the other, the same
\* characters and one common token of two, so rules (3) and (4) both apply
C21_Witness ==
    /\ Titled(Tayz, Tazy)
    /\ ~EqualIgnoringCase
    /\ ~EitherContainsOther
    /\ JaccardAbove70
    /\ CommonTokens > 0
    /\ TitlePart = 50

\* C22: for a target with an empty title and a candidate with a non-empty
\* title, the title contributes nothing to the score, which is therefore at
\* most SameAppScore + SameSizeScore; a candidate of another application is
\* never brought to MinimumScore by its title.
C22_EmptyTargetTitleScoresNothing ==
    (Scored /\ target.WindowTitle = TEmpty /\ candidate.WindowTitle # TEmpty) =>
        /\ TitlePart = 0
        /\ score <= SameAppScore + SameSizeScore
        /\ target.AppName # candidate.AppName => score < MinimumScore

\* C25: calculateScore never exceeds ExactTitleScore + SameAppScore +
\* SameSizeScore, and the title part never exceeds PartialTitleScore unless
\* the titles are equal ignoring case, also when a token of the target
\* occurs several times in the candidate's title.
C25_ScoreIsBounded ==
    Scored =>
        /\ score <= ExactTitleScore + SameAppScore + SameSizeScore
        /\ ~EqualIgnoringCase => TitlePart <= PartialTitleScore

-----------------------------------------------------------------------------
(* Properties of ManagerV2.Capture.                                        *)

RepositoryWrites ==
    {"CreateSnapshot", "SaveWindows", "SaveTerminals", "SaveBrowserTabs", "SaveIDEFiles"}
Enumerations ==
    {"GetWindows", "GetTerminals", "DetectContext", "GetBrowserTabs", "GetIDEFiles"}

\* the positions in the call log of the calls of one collaborator method
CallsOf(name) == {i \in DOMAIN clog : clog[i].call = name}
WriteCalls == {i \in DOMAIN clog : clog[i].call \in RepositoryWrites}
FailedCall(name) == \E i \in CallsOf(name) : ~clog[i].ok
FailedWrite == \E i \in WriteCalls : ~clog[i].ok

\* the store is as it was before the first Capture wrote to it
StoreUntouched ==
    /\ repoSnapshots = SeedSnapshots
    /\ repoWindows = SeedWindows
    /\ NoComponents

\* the running Capture has written nothing under its snapshot's identifier
NothingPersisted ==
    /\ WriteCalls = {}
    /\ StoreUntouched

\* Capture has returned an error and no snapshot
CaptureFailedWith(msg) == cpc = "done" /\ cerr = msg /\ cresult = NoSnapshot

\* Capture has returned its snapshot and a nil error
CaptureSucceeded == cpc = "done" /\ cerr = "" /\ cresult = capSnap

\* C12: if platform.GetWindows fails during Capture, Capture returns an error
\* and no snapshot, no repository write is issued and the persisted store is
\* unchanged.
C12_GetWindowsFailureIsFatal ==
    FailedCall("GetWindows") =>
        /\ CaptureFailedWith("failed to capture windows")
        /\ Len(clog) = 1
        /\ NothingPersisted

C12_Witness ==
    /\ FailedCall("GetWindows")
    /\ cpc = "done"
    /\ cerr # ""

\* C13: a failure of platform.GetTerminals aborts Capture, with an error and
\* nothing persisted, exactly when IncludeTerminals is true; when it is false
\* GetTerminals is never called and the snapshot is persisted with an empty
\* terminal list.
C13_TerminalsFatalIffRequested ==
    /\ FailedCall("GetTerminals") =>
          /\ copts.IncludeTerminals
          /\ CaptureFailedWith("failed to capture terminals")
          /\ NothingPersisted
    /\ cerr = "failed to capture terminals" => FailedCall("GetTerminals")
    /\ (cpc \notin {"idle", "GetWindows", "GetTerminals"} /\ ~FailedCall("GetWindows")) =>
          (CallsOf("GetTerminals") # {} <=> copts.IncludeTerminals)
    /\ (cpc # "idle" /\ ~copts.IncludeTerminals) =>
          /\ CallsOf("GetTerminals") = {}
          /\ CallsOf("SaveTerminals") = {}
          /\ capSnap.Terminals = << >>
          /\ capSnap.ID \notin DOMAIN repoTerminals
          /\ (cpc = "done" /\ ~FailedWrite /\ ~FailedCall("GetWindows")) =>
                /\ CaptureSucceeded
                /\ capSnap.ID \in DOMAIN repoSnapshots

C13_Witness ==
    /\ FailedCall("GetTerminals")
    /\ cpc = "done"
    /\ cerr # ""

\* a capture without terminals that was persisted
C13_SkippedReached ==
    /\ cpc = "done"
    /\ ~copts.IncludeTerminals
    /\ cerr = ""
    /\ capSnap.ID \in DOMAIN repoSnapshots

\* C14: a failure of platform.GetBrowserTabs or platform.GetIDEFiles never
\* makes Capture fail: if every other step succeeds, Capture returns a
\* snapshot with the failing list empty, the snapshot record and the windows
\* are persisted, and SaveBrowserTabs / SaveIDEFiles is not called for the
\* empty list.
C14_TabsAndFilesAreBestEffort ==
    /\ FailedCall("GetBrowserTabs") =>
          /\ capSnap.BrowserTabs = << >>
          /\ CallsOf("SaveBrowserTabs") = {}
          /\ capSnap.ID \notin DOMAIN repoBrowserTabs
    /\ FailedCall("GetIDEFiles") =>
          /\ capSnap.IDEFiles = << >>
          /\ CallsOf("SaveIDEFiles") = {}
          /\ capSnap.ID \notin DOMAIN repoIDEFiles
    /\ ((FailedCall("GetBrowserTabs") \/ FailedCall("GetIDEFiles"))
            /\ cpc = "done" /\ ~FailedWrite) =>
          /\ CaptureSucceeded
          /\ capSnap.ID \in DOMAIN repoSnapshots
          /\ repoSnapshots[capSnap.ID] = SnapshotRow(capSnap)
          /\ capSnap.Windows # << >> => 
                /\ capSnap.ID \in DOMAIN repoWindows
                /\ repoWindows[capSnap.ID] = capSnap.Windows

C14_Witness ==
    /\ FailedCall("GetBrowserTabs")
    /\ FailedCall("GetIDEFiles")
    /\ CaptureSucceeded
    /\ capSnap.Windows # << >>
    /\ capSnap.Terminals # << >>


\* the snapshot the sanitizer was handed by its k-th call, and that snapshot
\* as the sanitizer leaves it
HandedToSanitizer(k) == clog[k].data
SanitizerOutput(k) == SanitizeSnapshot(sanitizer, HandedToSanitizer(k))

\* what a repository write is handed when the snapshot is snap
WriteArgument(name, snap) ==
    CASE name = "CreateSnapshot" -> SnapshotRow(snap)
      [] name = "SaveWindows" -> snap.Windows
      [] name = "SaveTerminals" -> snap.Terminals
      [] name = "SaveBrowserTabs" -> snap.BrowserTabs
      [] name = "SaveIDEFiles" -> snap.IDEFiles

\* C15: in Capture with Sanitize=true the sanitizer is invoked on the
\* assembled snapshot exactly once and before the first repository write,
\* every list handed to CreateSnapshot / SaveWindows / SaveTerminals /
\* SaveBrowserTabs / SaveIDEFiles is the sanitized one, and no platform
\* enumeration adds captured data to the snapshot after the sanitizer ran.
C15_SanitizedOnceBeforePersistence ==
    (cpc # "idle" /\ copts.Sanitize) =>
        /\ Cardinality(CallsOf("SanitizeSnapshot")) <= 1
        /\ \A w \in WriteCalls :
              \E k \in CallsOf("SanitizeSnapshot") :
                  /\ k < w
                  /\ clog[w].data = WriteArgument(clog[w].call, SanitizerOutput(k))
        /\ \A k \in CallsOf("SanitizeSnapshot") :
              /\ \A i \in DOMAIN clog : clog[i].call \in Enumerations => i < k
              /\ \A i \in CallsOf("GetWindows") :
                    HandedToSanitizer(k).Windows = clog[i].data
              /\ cpc # "SanitizeSnapshot"
              /\ capSnap = SanitizerOutput(k)
        /\ CaptureSucceeded =>
              /\ Cardinality(CallsOf("SanitizeSnapshot")) = 1
              /\ \A k \in CallsOf("SanitizeSnapshot") : cresult = SanitizerOutput(k)

\* a sanitized capture that persisted all four lists, each rewritten by the
\* sanitizer
C15_Witness ==
    /\ CaptureSucceeded
    /\ copts.Sanitize
    /\ Cardinality(WriteCalls) = 5
    /\ \E k \in CallsOf("SanitizeSnapshot") :
          /\ HandedToSanitizer(k).Windows # cresult.Windows
          /\ HandedToSanitizer(k).Terminals # cresult.Terminals
          /\ HandedToSanitizer(k).BrowserTabs # cresult.BrowserTabs
          /\ HandedToSanitizer(k).IDEFiles # cresult.IDEFiles
          /\ repoWindows[capSnap.ID] = cresult.Windows

\* the fixed order of persistence, and the error of each of its steps
WriteOrder ==
    <<"CreateSnapshot", "SaveWindows", "SaveTerminals", "SaveBrowserTabs", "SaveIDEFiles">>
WriteRank(name) == CHOOSE k \in DOMAIN WriteOrder : WriteOrder[k] = name
WriteError(name) ==
    CASE name = "CreateSnapshot" -> "failed to save snapshot metadata"
      [] name = "SaveWindows" -> "failed to save windows"
      [] name = "SaveTerminals" -> "failed to save terminals"
      [] name = "SaveBrowserTabs" -> "failed to save browser tabs"
      [] name = "SaveIDEFiles" -> "failed to save ide files"

\* the rows stored under the running Capture's identifier by one write
StoredBy(name) ==
    LET rows(tbl) == IF capSnap.ID \in DOMAIN tbl THEN tbl[capSnap.ID] ELSE << >>
    IN  CASE name = "CreateSnapshot" ->
                 IF capSnap.ID \in DOMAIN repoSnapshots
                 THEN repoSnapshots[capSnap.ID] ELSE NoSnapshot
          [] name = "SaveWindows" -> rows(repoWindows)
          [] name = "SaveTerminals" -> rows(repoTerminals)
          [] name = "SaveBrowserTabs" -> rows(repoBrowserTabs)
          [] name = "SaveIDEFiles" -> rows(repoIDEFiles)

\* C16: Capture persists in the fixed order CreateSnapshot, SaveWindows,
\* SaveTerminals, SaveBrowserTabs, SaveIDEFiles, skipping the save of every
\* empty list; when a step fails Capture returns that step's error, no later
\* step is attempted, and the steps before it stay persisted (no rollback).
C16_PersistenceOrderNoRollback ==
  cpc # "idle" =>
    /\ \A i, j \in WriteCalls : i < j => WriteRank(clog[i].call) < WriteRank(clog[j].call)
    /\ \A i \in WriteCalls :
          /\ clog[i].call # "CreateSnapshot" =>
                /\ clog[i].data # << >>
                /\ \E c \in CallsOf("CreateSnapshot") : c < i /\ clog[c].ok
          /\ clog[i].data = WriteArgument(clog[i].call, capSnap)
          /\ clog[i].ok => StoredBy(clog[i].call) = clog[i].data
          /\ ~clog[i].ok =>
                /\ i = Len(clog)
                /\ CaptureFailedWith(WriteError(clog[i].call))
                /\ StoredBy(clog[i].call) \in {<< >>, NoSnapshot}
    /\ \A name \in RepositoryWrites :
          CallsOf(name) = {} => StoredBy(name) \in {<< >>, NoSnapshot}
    /\ (cpc = "done" /\ ~FailedWrite /\ WriteCalls # {}) =>
          /\ CaptureSucceeded
          /\ \A name \in RepositoryWrites \ {"CreateSnapshot"} :
                CallsOf(name) # {} <=> WriteArgument(name, capSnap) # << >>

\* SaveTerminals failed after the snapshot record and the windows were
\* written: both stay in the store, with no terminal rows
C16_Witness ==
    /\ cpc = "done"
    /\ cerr = "failed to save terminals"
    /\ capSnap.ID \in DOMAIN repoSnapshots
    /\ capSnap.ID \in DOMAIN repoWindows
    /\ repoWindows[capSnap.ID] = capSnap.Windows
    /\ capSnap.ID \notin DOMAIN repoTerminals
    /\ CallsOf("SaveBrowserTabs") = {}
    /\ capSnap.BrowserTabs # << >>

\* C18 for Capture: the only collaborator errors Capture ignores are those
\* of GetBrowserTabs and GetIDEFiles, so a failing git detector makes Capture
\* return an error.
C18_GitErrorIsReturned ==
    (cpc = "done" /\ FailedCall("DetectContext")) => cerr # ""

\* CreateSnapshot(capSnap) has succeeded in the running Capture
Created ==
    /\ cpc # "idle"
    /\ \E i \in DOMAIN clog : clog[i].call = "CreateSnapshot" /\ clog[i].ok

\* C30: after CreateSnapshot(S) succeeds, GetSnapshotByID(S.ID) returns a
\* snapshot with the ID, Name, Description, Tags, GitBranch, GitRepo,
\* GitDirty and GitHeadHash of S.
C30_SnapshotRoundTrip ==
    Created =>
        LET got == GetSnapshotByID(repoSnapshots, capSnap.ID)
        IN  /\ got # NoSnapshot
            /\ got.ID = capSnap.ID
            /\ got.Name = capSnap.Name
            /\ got.Description = capSnap.Description
            /\ got.Tags = capSnap.Tags
            /\ got.GitBranch = capSnap.GitBranch
            /\ got.GitRepo = capSnap.GitRepo
            /\ got.GitDirty = capSnap.GitDirty
            /\ got.GitHeadHash = capSnap.GitHeadHash

-----------------------------------------------------------------------------
(* Properties of ManagerV2.Diff.                                           *)

\* Diff returned a result for two stored snapshots whose window lists it read
DiffOfLoaded == dpc = "done" /\ diff # NoDiff /\ diffLoads = <<TRUE, TRUE>>
TitlesA == TitleSet(repoWindows[diffIDs[1]])
TitlesB == TitleSet(repoWindows[diffIDs[2]])

\* C10: for stored snapshots A and B with window lists wA and wB, Diff(A, B)
\* lists in AddedWindows the distinct titles of wB that are not in wA, each
\* once, in RemovedWindows the distinct titles of wA that are not in wB, each
\* once, and counts in CommonWindows the distinct titles that are in both.
C10_DiffByDistinctTitle ==
    DiffOfLoaded =>
        /\ Range(diff.AddedWindows) = TitlesB \ TitlesA
        /\ Len(diff.AddedWindows) = Cardinality(TitlesB \ TitlesA)
        /\ Range(diff.RemovedWindows) = TitlesA \ TitlesB
        /\ Len(diff.RemovedWindows) = Cardinality(TitlesA \ TitlesB)
        /\ diff.CommonWindows = Cardinality(TitlesA \cap TitlesB)
        /\ (TitlesA = {TA, TB} /\ TitlesB = {TB, TC}) =>
              /\ diff.AddedWindows = <<TC>>
              /\ diff.RemovedWindows = <<TA>>
              /\ diff.CommonWindows = 1

\* titles A, B against B, B: a list with a duplicate, one common title
C10_Witness ==
    /\ DiffOfLoaded
    /\ TitlesA = {TA, TB}
    /\ Len(repoWindows[diffIDs[2]]) = 2
    /\ TitlesB = {TB}
    /\ diff.CommonWindows = 1
    /\ diff.RemovedWindows = <<TA>>

\* the scenario: titles A, B against B, C
C10_ScenarioReached ==
    DiffOfLoaded /\ TitlesA = {TA, TB} /\ TitlesB = {TB, TC}

\* what Diff(B, A) can return against the same store, (A, B) being the
\* arguments of the call that returned, when every load succeeds
ReverseDiffs ==
    Diff(repoSnapshots, repoWindows, diffIDs[2], diffIDs[1], TRUE, TRUE, TRUE, TRUE)

\* C11: for stored snapshots A and B and an unchanged store, the titles of
\* Diff(A, B).AddedWindows are those of Diff(B, A).RemovedWindows, the titles
\* of Diff(A, B).RemovedWindows are those of Diff(B, A).AddedWindows, and
\* CommonWindows and GitChanged are the same in both directions.
C11_DiffIsSymmetric ==
    DiffOfLoaded =>
        \A r \in ReverseDiffs :
            /\ r[2] = ""
            /\ Range(diff.AddedWindows) = Range(r[1].RemovedWindows)
            /\ Range(diff.RemovedWindows) = Range(r[1].AddedWindows)
            /\ diff.CommonWindows = r[1].CommonWindows
            /\ diff.GitChanged = r[1].GitChanged

\* two different snapshots, with a title only in A, a title only in B, a
\* common title and different git contexts
C11_Witness ==
    /\ DiffOfLoaded
    /\ diffIDs[1] # diffIDs[2]
    /\ diff.AddedWindows # << >>
    /\ diff.RemovedWindows # << >>
    /\ diff.CommonWindows = 1
    /\ diff.GitChanged

\* the <<GitBranch, GitRepo>> of the two snapshots of the Diff call
GitA == <<repoSnapshots[diffIDs[1]].GitBranch, repoSnapshots[diffIDs[1]].GitRepo>>
GitB == <<repoSnapshots[diffIDs[2]].GitBranch, repoSnapshots[diffIDs[2]].GitRepo>>

\* C20: Diff(A, B).GitChanged is true if and only if the two snapshots'
\* GitBranch strings differ or their GitRepo strings differ, including the
\* case where one snapshot has git context and the other has none (empty
\* strings); it is false when both have none.
C20_GitChangedIffContextDiffers ==
    (dpc = "done" /\ diff # NoDiff) =>
        /\ diff.GitChanged <=> (GitA[1] # GitB[1] \/ GitA[2] # GitB[2])
        /\ (GitA = <<"", "">> /\ GitB = <<"", "">>) => ~diff.GitChanged
        /\ (GitA = <<"", "">> /\ GitB # <<"", "">>) => diff.GitChanged
        /\ (GitA # <<"", "">> /\ GitB = <<"", "">>) => diff.GitChanged

\* the same branch in two repositories
C20_Witness ==
    /\ dpc = "done"
    /\ diff # NoDiff
    /\ GitA = <<"main", "/repo">>
    /\ GitB = <<"main", "/other">>
    /\ diff.GitChanged

\* a snapshot with git context against one with none
C20_OneSideWithoutContext ==
    /\ dpc = "done"
    /\ diff # NoDiff
    /\ GitA = <<"", "">>
    /\ GitB = <<"dev", "/repo">>
    /\ diff.GitChanged

\* C18: in Capture, Restore and Diff every error returned by a collaborator
\* call makes the operation return an error to its caller, the errors of
\* GetBrowserTabs and GetIDEFiles during capture excepted; here for Diff: a
\* failing repository.GetWindows is returned, not treated as an empty list.
C18_CollaboratorErrorsAreReturned ==
    (dpc = "done" /\ diffLoads # <<TRUE, TRUE>>) =>
        /\ derr # ""
        /\ diff = NoDiff

====
